---- MODULE Spec2Model ----
(***************************************************************************)
(* NTFS raw-volume reader: data-run decoder (ntfs/metadata.rs), run list   *)
(* loader and RunReader / ContentReader / Volume (ntfs/content.rs), and    *)
(* the MFT record fixup (ntfs/metadata.rs).                                *)
(***************************************************************************)
EXTENDS Integers, Sequences, FiniteSets, TLC

VARIABLES
    \* ---- run-list decoder (parse_run_list / load_runs) ----
    overflow_checks,  \* build profile: TRUE = arithmetic overflow panics, FALSE = it wraps
    recs,             \* the on-disk records the input bytes were encoded from
    cur_bytes,        \* the bytes under the Cursor handed to parse_run_list
    cur_pos,          \* the Cursor's position
    cluster_size,     \* parse_run_list's cluster_size argument
    real_size,        \* parse_run_list's size argument (the attribute's real size)
    raw_runs,         \* parse_run_list's local `runs`: (byte offset, byte length) tuples
    abs_offset,       \* parse_run_list's local `offset` (signed cluster accumulator)
    first_byte,       \* parse_run_list's local `first_byte`
    pr_pc,            \* "start" | "loop" | "done" | "err" | "panic"
    out_runs,         \* the Vec<DataRun> returned by load_runs
    \* ---- ContentReader / RunReader over a device ----
    kind,             \* ContentReader variant: "Resident" | "NonResident" | "none"
    dev,              \* the bytes of the device the RunReader's volume reads
    data,             \* Resident: the Cursor's bytes
    cpos,             \* Resident: the Cursor's position
    runs,             \* RunReader.runs
    size,             \* RunReader.size
    state,            \* RunReader.state: [run, pos], run counted from 0
    vol_pos,          \* position of the RunReader's volume (the device cursor)
    ret,              \* what the last read / seek on the reader returned
    sequential,       \* TRUE while the reader has only been read since it was created
    out,              \* the bytes returned so far while sequential
    \* ---- MFT record fixup (parse_mft_header / fixup_buf) ----
    disk,             \* the 1024-byte record as read from the volume
    buf,              \* fixup_buf's buf: the record being fixed up
    sector_size,      \* fixup_buf's sector_size argument (Boot.sector_size)
    hdr,              \* the MFTHeader parsed from the record
    fx_sig,           \* fixup_buf's local `sig`
    fx_entry,         \* fixup_buf's loop variable `entry`
    fx_pass,          \* how many times fixup_buf has been applied to buf
    fx_pc,            \* "idle" | "run" | "ok" | "panic"
    \* ---- Volume: BufReader over the raw volume handle ----
    vol,              \* [raw_pos, pos, filled]: the handle's offset, the buffer's cursor and fill
    vret,             \* what the last operation on the Volume did and returned
    vol_pc,           \* "closed" | "open" | "panic"
    \* ---- parse_boot ----
    boot_sec,         \* the boot sector, as the map of its non-zero bytes
    boot_pos,         \* position of the volume parse_boot reads from
    boot,             \* sector_size, sectors_per_cluster, cluster_size, mft_start_cluster, mft_start
    boot_pc,          \* "idle" | "start" | "spc" | "mft" | "ok" | "panic"
    \* ---- the MFT facade: MFT::open_entry and the readers of MFTEntry::data ----
    mft_ss,           \* boot.sector_size of the volume the MFT was opened on
    handles,          \* position of every volume handle, -1 when it is not open
    mft,              \* MFT.data: the RunReader over $MFT, [h, runs, size, state]
    mft_entry,        \* what the last open_entry returned
    rdr,              \* the reader the last data() call returned
    solo,             \* where each of the two streams would be had it run alone
    \* ---- read_int_bytes on its own ----
    ri_bytes,         \* the bytes under the cursor handed to read_int_bytes
    ri_pos,           \* the cursor's position at the call
    ri_n,             \* read_int_bytes' num_bytes argument
    ri_signed,        \* read_int_bytes' signed argument
    ri_ret,           \* what read_int_bytes returned: [st, bytes, pos]
    \* ---- parse_mft_attrs, one loop iteration at a time ----
    at_rec,           \* the record under the cursor handed to parse_mft_attrs
    at_start,         \* where the cursor stood when parse_mft_attrs was called
    at_pos,           \* the cursor's position
    at_attrs,         \* the attributes pushed so far: [at, lo, hi, length]
    at_pc,            \* "idle" | "scan" | "attr" | "ok" | "err" | "panic"
    \* ---- write_content of main.rs on a NonResident content ----
    wc_cs,            \* boot.cluster_size
    wc_size,          \* the NonResident content's size
    wc_runs,          \* its run_lists: [length, offset] in clusters, the offset a delta
    wc_k,             \* the run the outer loop is at
    wc_i,             \* the cluster the inner loop is at
    wc_offset,        \* write_content's offset: the cluster the current run starts at
    wc_remaining,     \* write_content's remaining
    wc_buflen,        \* buf.len()
    wc_src,           \* position of the source
    wc_written,       \* bytes written to dest
    wc_pc             \* "idle" | "run" | "cluster" | "ok" | "err" | "panic"

parseVars == <<overflow_checks, recs, cur_bytes, cur_pos, cluster_size, real_size,
               raw_runs, abs_offset, first_byte, pr_pc, out_runs>>

readerVars == <<kind, dev, data, cpos, runs, size, state, vol_pos, ret, sequential, out>>

fixVars == <<disk, buf, sector_size, hdr, fx_sig, fx_entry, fx_pass, fx_pc>>

volVars == <<vol, vret, vol_pc>>

bootVars == <<boot_sec, boot_pos, boot, boot_pc>>

mftVars == <<mft_ss, handles, mft, mft_entry, rdr, solo>>

intVars == <<ri_bytes, ri_pos, ri_n, ri_signed, ri_ret>>

attrVars == <<at_rec, at_start, at_pos, at_attrs, at_pc>>

writeVars == <<wc_cs, wc_size, wc_runs, wc_k, wc_i, wc_offset, wc_remaining, wc_buflen, wc_src, wc_written, wc_pc>>

notParse == <<readerVars, fixVars, volVars, bootVars, mftVars, intVars, attrVars, writeVars>>

notReader == <<parseVars, fixVars, volVars, bootVars, mftVars, intVars, attrVars, writeVars>>

notFix == <<parseVars, readerVars, volVars, bootVars, mftVars, intVars, attrVars, writeVars>>

notVol == <<parseVars, readerVars, fixVars, bootVars, mftVars, intVars, attrVars, writeVars>>

notBoot == <<parseVars, readerVars, fixVars, volVars, mftVars, intVars, attrVars, writeVars>>

notMft == <<parseVars, readerVars, fixVars, volVars, bootVars, intVars, attrVars, writeVars>>

notInt == <<parseVars, readerVars, fixVars, volVars, bootVars, mftVars, attrVars, writeVars>>

notAttr == <<parseVars, readerVars, fixVars, volVars, bootVars, mftVars, intVars, writeVars>>

notWrite == <<parseVars, readerVars, fixVars, volVars, bootVars, mftVars, intVars, attrVars>>

vars == <<parseVars, readerVars, fixVars, volVars, bootVars, mftVars, intVars, attrVars, writeVars>>

----------------------------------------------------------------------------
(* Bounds of the model *)

\* modulus standing for 2^64: the width of u64 in the model
U64Mod == 1048576
\* most records in an encoded run list
MaxRecs == 3
\* most runs of a RunReader's run list
MaxRuns == 3
\* most bytes of cluster slack cut from the last run of a RunReader's run list
MaxSlack == 1
\* largest step of a seek relative to the current position or to the end
MaxDelta == 2
\* largest fixup_entries of a record header
MaxFixupEntries == 3
\* bytes on the raw volume
VolLen == 1060000

----------------------------------------------------------------------------
(* Program constants *)

\* bytes of an MFT record: `let mut buf = [0u8; 1024]`
RecordSize == 1024
\* BufReader::with_capacity(1024 * 1024, ..)
Capacity == 1048576
\* the granularity Volume::seek aligns raw seeks to
Align == 512
\* u16 arithmetic of parse_boot: `let cluster_size: u16`
U16Mod == 65536

----------------------------------------------------------------------------
(* u64 arithmetic: an out-of-range result panics when the build checks     *)
(* overflow and wraps otherwise.                                           *)

InU64(x) == x >= 0 /\ x < U64Mod

Wrap64(x) == x % U64Mod

RECURSIVE SumLen(_)
SumLen(rs) == IF rs = <<>> THEN 0 ELSE Head(rs).len + SumLen(Tail(rs))

----------------------------------------------------------------------------
(* load_runs *)

\* mutant: virt_offset advanced by the run's offset instead of its length
RECURSIVE LoadLoopByOffset(_, _, _, _)
LoadLoopByOffset(raw, virt, acc, checks) ==
    IF raw = <<>> THEN [st |-> "ok", runs |-> acc, virt |-> virt]
    ELSE LET r    == Head(raw)
             next == virt + r[1]
             run  == [offset |-> r[1], virt_offset |-> virt, len |-> r[2]]
         IN  IF ~InU64(next) /\ checks
             THEN [st |-> "panic", runs |-> acc, virt |-> virt]
             ELSE LoadLoopByOffset(Tail(raw), Wrap64(next), Append(acc, run), checks)

\* the `for (offset, len) in iter` loop: push a DataRun, advance virt_offset
RECURSIVE LoadLoop(_, _, _, _)
LoadLoop(raw, virt, acc, checks) ==
    IF raw = <<>> THEN [st |-> "ok", runs |-> acc, virt |-> virt]
    ELSE LET r    == Head(raw)
             next == virt + r[2]
             run  == [offset |-> r[1], virt_offset |-> virt, len |-> r[2]]
         IN  IF ~InU64(next) /\ checks
             THEN [st |-> "panic", runs |-> acc, virt |-> virt]
             ELSE LoadLoop(Tail(raw), Wrap64(next), Append(acc, run), checks)

\* mutant: a list of no runs is returned as it is
LoadRunsEmptyOk(raw, sz, checks) ==
    LET l == LoadLoop(raw, 0, <<>>, checks)
    IN  IF l.st = "panic" THEN [st |-> "panic", runs |-> <<>>]
        ELSE IF Len(l.runs) = 0 THEN [st |-> "ok", runs |-> <<>>]
        ELSE LET slack == l.virt - sz
                 last_run  == Len(l.runs)
                 fixed_len == l.runs[last_run].len - Wrap64(slack)
             IN  IF (~InU64(slack) \/ ~InU64(fixed_len)) /\ checks
                 THEN [st |-> "panic", runs |-> <<>>]
                 ELSE [st |-> "ok",
                       runs |-> [l.runs EXCEPT ![last_run].len = Wrap64(fixed_len)]]

LoadRuns(raw, sz, checks) ==
    LET l == LoadLoop(raw, 0, <<>>, checks)
    IN  IF l.st = "panic" THEN [st |-> "panic", runs |-> <<>>]
        ELSE LET slack == l.virt - sz
             IN  IF ~InU64(slack) /\ checks THEN [st |-> "panic", runs |-> <<>>]
                 \* runs.len() - 1 underflows, or runs[usize::MAX] is out of bounds
                 ELSE IF Len(l.runs) = 0 THEN [st |-> "panic", runs |-> <<>>]
                 ELSE LET last_run  == Len(l.runs)
                          fixed_len == l.runs[last_run].len - Wrap64(slack)
                      IN  IF ~InU64(fixed_len) /\ checks
                          THEN [st |-> "panic", runs |-> <<>>]
                          ELSE [st |-> "ok",
                                runs |-> [l.runs EXCEPT ![last_run].len = Wrap64(fixed_len)]]

----------------------------------------------------------------------------
(* read_int_bytes and the integer conversions *)

RECURSIVE Fill8(_, _)
Fill8(bytes, fill) == IF Len(bytes) >= 8 THEN bytes ELSE Fill8(Append(bytes, fill), fill)

\* mutant: the bytes are always zero-extended
ReadIntBytesZeroFill(num_bytes, bytes, pos, signed) ==
    IF num_bytes > 8 THEN [st |-> "panic", bytes |-> <<>>, pos |-> pos]
    ELSE IF pos + num_bytes > Len(bytes) THEN [st |-> "err", bytes |-> <<>>, pos |-> Len(bytes)]
    ELSE [st |-> "ok", bytes |-> Fill8(SubSeq(bytes, pos + 1, pos + num_bytes), 0),
          pos |-> pos + num_bytes]

\* mutant: the sign is taken from the first byte read instead of the last
ReadIntBytesFirstByte(num_bytes, bytes, pos, signed) ==
    IF num_bytes > 8 THEN [st |-> "panic", bytes |-> <<>>, pos |-> pos]
    ELSE IF pos + num_bytes > Len(bytes) THEN [st |-> "err", bytes |-> <<>>, pos |-> Len(bytes)]
    ELSE LET got  == SubSeq(bytes, pos + 1, pos + num_bytes)
             fill == IF signed /\ got # <<>> /\ got[1] >= 128 THEN 255 ELSE 0
         IN  [st |-> "ok", bytes |-> Fill8(got, fill), pos |-> pos + num_bytes]

\* read_int_bytes: num_bytes bytes from the cursor, resized to 8 with the fill byte
ReadIntBytes(num_bytes, bytes, pos, signed) ==
    IF num_bytes > 8 THEN [st |-> "panic", bytes |-> <<>>, pos |-> pos]
    ELSE IF pos + num_bytes > Len(bytes) THEN [st |-> "err", bytes |-> <<>>, pos |-> Len(bytes)]
    ELSE LET got  == SubSeq(bytes, pos + 1, pos + num_bytes)
             fill == IF signed
                     THEN IF got # <<>>
                          THEN IF got[Len(got)] >= 128 THEN 255 ELSE 0
                          ELSE 0
                     ELSE 0
         IN  [st |-> "ok", bytes |-> Fill8(got, fill), pos |-> pos + num_bytes]

\* u64::from_le_bytes
RECURSIVE U64FromLe(_)
U64FromLe(b) == IF b = <<>> THEN 0 ELSE Head(b) + 256 * U64FromLe(Tail(b))

\* i64::from_le_bytes: two's complement, sign in the top bit of the eighth byte
RECURSIVE LeDiff(_, _)
LeDiff(b, top) == IF b = <<>> THEN 0 ELSE (Head(b) - top) + 256 * LeDiff(Tail(b), top)

I64FromLe(b) == IF b[8] >= 128 THEN LeDiff(b, 255) - 1 ELSE LeDiff(b, 0)

----------------------------------------------------------------------------
(* Encoding of the inputs: a record is a header byte, L length bytes and   *)
(* O offset bytes, little-endian, the offset in two's complement.          *)

RECURSIVE Pow256(_)
Pow256(n) == IF n = 0 THEN 1 ELSE 256 * Pow256(n - 1)

RECURSIVE LeBytes(_, _)
LeBytes(v, n) == IF n = 0 THEN <<>> ELSE <<v % 256>> \o LeBytes(v \div 256, n - 1)

EncodeRec(r) ==
    <<r.O * 16 + r.L>>
    \o LeBytes(r.length, r.L)
    \o LeBytes(IF r.delta < 0 THEN Pow256(r.O) + r.delta ELSE r.delta, r.O)

RECURSIVE EncodeRecs(_)
EncodeRecs(rs) == IF rs = <<>> THEN <<>> ELSE EncodeRec(Head(rs)) \o EncodeRecs(Tail(rs))

RecSet ==
    { [L |-> 1, O |-> 2, length |-> 16, delta |-> 256],
      [L |-> 1, O |-> 1, length |-> 32, delta |-> -32],
      [L |-> 0, O |-> 1, length |-> 0,  delta |-> 5],
      [L |-> 1, O |-> 0, length |-> 3,  delta |-> 0],
      [L |-> 2, O |-> 1, length |-> 300, delta |-> -128],
      [L |-> 9, O |-> 0, length |-> 0,  delta |-> 0] }

RecLists == UNION { [1..n -> RecSet] : n \in 0..MaxRecs }

SizeSet == {0, 3, 16, 46, 48, 49}

ClusterSizes == {1, 4}

----------------------------------------------------------------------------
(* parse_run_list *)

\* no reader exists
ReaderIdle ==
    /\ kind = "none"
    /\ dev = <<>>
    /\ data = <<>>
    /\ cpos = 0
    /\ runs = <<>>
    /\ size = 0
    /\ state = [run |-> 0, pos |-> 0]
    /\ vol_pos = 0
    /\ ret = [op |-> "none"]
    /\ sequential = TRUE
    /\ out = <<>>

\* no MFT is open
IntIdle ==
    /\ ri_bytes = <<>>
    /\ ri_pos = 0
    /\ ri_n = 0
    /\ ri_signed = FALSE
    /\ ri_ret = [st |-> "none"]

AttrIdle ==
    /\ at_rec = <<>>
    /\ at_start = 0
    /\ at_pos = 0
    /\ at_attrs = <<>>
    /\ at_pc = "idle"

WriteIdle ==
    /\ wc_cs = 0
    /\ wc_size = 0
    /\ wc_runs = <<>>
    /\ wc_k = 0
    /\ wc_i = 0
    /\ wc_offset = 0
    /\ wc_remaining = 0
    /\ wc_buflen = 0
    /\ wc_src = 0
    /\ wc_written = 0
    /\ wc_pc = "idle"

MftIdle ==
    /\ mft_ss = 0
    /\ handles = <<>>
    /\ mft = [h |-> 0]
    /\ mft_entry = [st |-> "none", idx |-> 0, prev |-> "none", failed |-> FALSE,
                    exact |-> TRUE, fresh |-> TRUE, attrs |-> <<>>, ends |-> <<>>]
    /\ rdr = [open |-> FALSE]
    /\ solo = [op |-> "none"]

\* parse_boot is not running
BootIdle ==
    /\ boot_sec = <<>>
    /\ boot_pos = 0
    /\ boot = [sector_size |-> 0, sectors_per_cluster |-> 0, cluster_size |-> 0,
               mft_start_cluster |-> 0, mft_start |-> 0]
    /\ boot_pc = "idle"

\* no Volume is open
VolIdle ==
    /\ vol = [raw_pos |-> 0, pos |-> 0, filled |-> 0, base |-> 0, seeks |-> <<>>]
    /\ vret = [op |-> "none"]
    /\ vol_pc = "closed"

\* no record is being fixed up
FixIdle ==
    /\ disk = <<>>
    /\ buf = <<>>
    /\ sector_size = 0
    /\ hdr = [fixup_offset |-> 0, fixup_entries |-> 0]
    /\ fx_sig = <<0, 0>>
    /\ fx_entry = 0
    /\ fx_pass = 0
    /\ fx_pc = "idle"

InitParse ==
    /\ MftIdle
    /\ WriteIdle
    /\ AttrIdle
    /\ IntIdle
    /\ BootIdle
    /\ ReaderIdle
    /\ FixIdle
    /\ VolIdle
    /\ overflow_checks \in BOOLEAN
    /\ recs \in RecLists
    /\ \E term \in {<<0>>, <<>>} : cur_bytes = EncodeRecs(recs) \o term
    /\ cur_pos = 0
    /\ cluster_size \in ClusterSizes
    /\ real_size \in SizeSet
    /\ raw_runs = <<>>
    /\ abs_offset = 0
    /\ first_byte = 0
    /\ pr_pc = "start"
    /\ out_runs = <<>>

\* cur.read_u8()
ReadU8(bytes, pos) ==
    IF pos < Len(bytes) THEN [st |-> "ok", val |-> bytes[pos + 1], pos |-> pos + 1]
    ELSE [st |-> "err", val |-> 0, pos |-> pos]

\* let mut first_byte = cur.read_u8()?;
PRL_ReadFirst ==
    /\ pr_pc = "start"
    /\ LET b == ReadU8(cur_bytes, cur_pos)
       IN  /\ first_byte' = b.val
           /\ cur_pos' = b.pos
           /\ pr_pc' = IF b.st = "ok" THEN "loop" ELSE "err"
    /\ UNCHANGED <<overflow_checks, recs, cur_bytes, cluster_size, real_size,
                   raw_runs, abs_offset, out_runs>>
    /\ UNCHANGED notParse

\* one iteration of `while first_byte > 0`
PRL_Record ==
    /\ pr_pc = "loop"
    /\ first_byte > 0
    /\ LET length_length == first_byte % 16
           offset_length == first_byte \div 16
           lb == ReadIntBytes(length_length, cur_bytes, cur_pos, FALSE)
           ob == ReadIntBytes(offset_length, cur_bytes, lb.pos, TRUE)
           length     == U64FromLe(lb.bytes)
           rel_offset == I64FromLe(ob.bytes)
           offset     == abs_offset + rel_offset
           nb == ReadU8(cur_bytes, ob.pos)
           boff == offset * cluster_size
           blen == length * cluster_size
       IN  IF lb.st # "ok"
           THEN /\ pr_pc' = lb.st
                /\ UNCHANGED <<cur_pos, raw_runs, abs_offset, first_byte>>
           ELSE IF ob.st # "ok"
           THEN /\ pr_pc' = ob.st
                /\ cur_pos' = lb.pos
                /\ UNCHANGED <<raw_runs, abs_offset, first_byte>>
           \* u64::try_from(offset).unwrap()
           ELSE IF offset < 0 \/ (overflow_checks /\ (~InU64(boff) \/ ~InU64(blen)))
           THEN /\ pr_pc' = "panic"
                /\ cur_pos' = ob.pos
                /\ abs_offset' = offset
                /\ UNCHANGED <<raw_runs, first_byte>>
           ELSE /\ abs_offset' = offset
                /\ raw_runs' = Append(raw_runs, <<Wrap64(boff), Wrap64(blen)>>)
                /\ cur_pos' = nb.pos
                /\ first_byte' = nb.val
                /\ pr_pc' = IF nb.st = "ok" THEN "loop" ELSE "err"
    /\ UNCHANGED <<overflow_checks, recs, cur_bytes, cluster_size, real_size, out_runs>>
    /\ UNCHANGED notParse

\* Ok(load_runs(runs, size))
PRL_LoadRuns ==
    /\ pr_pc = "loop"
    /\ first_byte = 0
    /\ LET l == LoadRuns(raw_runs, real_size, overflow_checks)
       IN  /\ out_runs' = l.runs
           /\ pr_pc' = IF l.st = "ok" THEN "done" ELSE "panic"
    /\ UNCHANGED <<overflow_checks, recs, cur_bytes, cur_pos, cluster_size, real_size,
                   raw_runs, abs_offset, first_byte>>
    /\ UNCHANGED notParse

NextParse == PRL_ReadFirst \/ PRL_Record \/ PRL_LoadRuns

SpecParse == InitParse /\ [][NextParse]_vars


----------------------------------------------------------------------------
(* RunReader *)

\* RunReader::state_for: the run before the first run whose virt_offset > pos
RECURSIVE FirstAbove(_, _, _)
FirstAbove(rs, pos, i) ==
    IF i >= Len(rs) THEN Len(rs)
    ELSE IF rs[i + 1].virt_offset > pos THEN i
    ELSE FirstAbove(rs, pos, i + 1)

\* mutant: the offset inside the run is dropped
StateForRunStart(rs, pos) ==
    LET idx == FirstAbove(rs, pos, 0)
    IN  [run |-> idx - 1, pos |-> 0]

StateFor(rs, pos) ==
    LET idx == FirstAbove(rs, pos, 0)
    IN  [run |-> idx - 1, pos |-> pos - rs[idx].virt_offset]

\* RunReader::run_remaining, position, virt_position
RunRemaining(rs, st) == rs[st.run + 1].len - st.pos
Position(rs, st)     == rs[st.run + 1].offset + st.pos
VirtPosition(rs, st) == rs[st.run + 1].virt_offset + st.pos

\* RunReader::seek_offset
SeekOffset(rs, sz, st, whence, x) ==
    CASE whence = "Start"   -> x
      [] whence = "Current" -> VirtPosition(rs, st) + x
      [] whence = "End"     -> sz + x

\* mutant: the device is left at the start of the target run
RunSeekRunStart(rs, st, offset) ==
    LET ns == StateFor(rs, offset)
    IN  [state |-> ns, vol_pos |-> rs[ns.run + 1].offset, val |-> VirtPosition(rs, ns)]

\* impl Seek for RunReader: seek; the device is left at position()
RunSeek(rs, st, offset) ==
    LET ns == StateFor(rs, offset)
    IN  [state |-> ns, vol_pos |-> Position(rs, ns), val |-> VirtPosition(rs, ns)]

\* impl Seek for RunReader: seek when `self.volume.seek(..)?` returns Err;
\* Volume::seek fails before it moves, or after its raw seek to the aligned
\* offset below the target
RunSeekFailed(rs, st, vp, offset) ==
    LET ns == StateFor(rs, offset)
    IN  [state |-> ns, vol_pos |-> {vp, Position(rs, ns) - (Position(rs, ns) % Align)}]

\* mutant: an exhausted run is not left by a re-seek
RunReadNoReseek(rs, sz, st, vp, d, n, pick) ==
    LET vpos == VirtPosition(rs, st)
        sk   == IF vpos = 0
                THEN RunSeek(rs, st, vpos)
                ELSE [state |-> st, vol_pos |-> vp, val |-> vpos]
        remaining == RunRemaining(rs, sk.state)
        want  == IF n < remaining THEN n ELSE remaining
        avail == IF sk.vol_pos < Len(d) THEN Len(d) - sk.vol_pos ELSE 0
        most  == IF want < avail THEN want ELSE avail
        nread == IF pick < most THEN pick ELSE most
    IN  [state   |-> [sk.state EXCEPT !.pos = sk.state.pos + nread],
         vol_pos |-> sk.vol_pos + nread,
         bytes   |-> SubSeq(d, sk.vol_pos + 1, sk.vol_pos + nread)]

\* mutant: the device is read without take(remaining)
RunReadNoTake(rs, sz, st, vp, d, n, pick) ==
    LET vpos == VirtPosition(rs, st)
        sk   == IF vpos = 0 \/ (RunRemaining(rs, st) = 0 /\ vpos < sz)
                THEN RunSeek(rs, st, vpos)
                ELSE [state |-> st, vol_pos |-> vp, val |-> vpos]
        avail == IF sk.vol_pos < Len(d) THEN Len(d) - sk.vol_pos ELSE 0
        most  == IF n < avail THEN n ELSE avail
        nread == IF pick < most THEN pick ELSE most
    IN  [state   |-> [sk.state EXCEPT !.pos = sk.state.pos + nread],
         vol_pos |-> sk.vol_pos + nread,
         bytes   |-> SubSeq(d, sk.vol_pos + 1, sk.vol_pos + nread)]

\* mutant: a read that exhausts its run moves the state on to the next run
RunReadAutoAdvance(rs, sz, st, vp, d, n, pick) ==
    LET vpos == VirtPosition(rs, st)
        sk   == IF vpos = 0 \/ (RunRemaining(rs, st) = 0 /\ vpos < sz)
                THEN RunSeek(rs, st, vpos)
                ELSE [state |-> st, vol_pos |-> vp, val |-> vpos]
        remaining == RunRemaining(rs, sk.state)
        want  == IF n < remaining THEN n ELSE remaining
        avail == IF sk.vol_pos < Len(d) THEN Len(d) - sk.vol_pos ELSE 0
        most  == IF want < avail THEN want ELSE avail
        nread == IF pick < most THEN pick ELSE most
        ns    == [sk.state EXCEPT !.pos = sk.state.pos + nread]
    IN  [state   |-> IF RunRemaining(rs, ns) = 0 /\ VirtPosition(rs, ns) < sz
                     THEN StateFor(rs, VirtPosition(rs, ns)) ELSE ns,
         vol_pos |-> sk.vol_pos + nread,
         bytes   |-> SubSeq(d, sk.vol_pos + 1, sk.vol_pos + nread)]

\* mutant: a read that finds its run exhausted goes to the following run,
\* whatever its length
RunReadSeekNextRun(rs, sz, st, vp) ==
    LET vpos == VirtPosition(rs, st)
    IN  IF vpos = 0
        THEN RunSeek(rs, st, vpos)
        ELSE IF RunRemaining(rs, st) = 0 /\ vpos < sz
        THEN [state |-> [run |-> st.run + 1, pos |-> 0],
              vol_pos |-> rs[st.run + 2].offset, val |-> vpos]
        ELSE [state |-> st, vol_pos |-> vp, val |-> vpos]

\* mutant: a read at virtual position 0 does not seek the device first
RunReadSeekNotAtZero(rs, sz, st, vp) ==
    LET vpos == VirtPosition(rs, st)
    IN  IF RunRemaining(rs, st) = 0 /\ vpos < sz
        THEN RunSeek(rs, st, vpos)
        ELSE [state |-> st, vol_pos |-> vp, val |-> vpos]

\* impl Read for RunReader, `if vpos == 0 || (self.run_remaining() == 0 &&
\* vpos < self.size) { self.seek(SeekFrom::Start(vpos))?; }`
RunReadSeek(rs, sz, st, vp) ==
    LET vpos == VirtPosition(rs, st)
    IN  IF vpos = 0 \/ (RunRemaining(rs, st) = 0 /\ vpos < sz)
        THEN RunSeek(rs, st, vpos)
        ELSE [state |-> st, vol_pos |-> vp, val |-> vpos]

\* impl Read for RunReader: read into a buffer of n bytes; the device hands
\* back at most `pick` bytes of what take(remaining) asks it for
RunRead(rs, sz, st, vp, d, n, pick) ==
    LET sk   == RunReadSeek(rs, sz, st, vp)
        remaining == RunRemaining(rs, sk.state)
        want  == IF n < remaining THEN n ELSE remaining
        avail == IF sk.vol_pos < Len(d) THEN Len(d) - sk.vol_pos ELSE 0
        most  == IF want < avail THEN want ELSE avail
        nread == IF pick < most THEN pick ELSE most
    IN  [state   |-> [sk.state EXCEPT !.pos = sk.state.pos + nread],
         vol_pos |-> sk.vol_pos + nread,
         bytes   |-> SubSeq(d, sk.vol_pos + 1, sk.vol_pos + nread)]

----------------------------------------------------------------------------
(* ContentReader over a device: inputs *)

DevContents == { <<52, 53, 54, 48, 49, 50, 51, 88, 88, 88, 55, 56, 57>> }

RawRunSet == { <<3, 4>>, <<0, 3>>, <<10, 3>>, <<5, 0>> }

\* run lists of distinct extents
RawRunLists ==
    { raw \in UNION { [1..n -> RawRunSet] : n \in 1..MaxRuns } :
        \A i, j \in 1..Len(raw) : i # j => raw[i] # raw[j] }

ResidentData == { <<>>, <<70, 73, 76, 69>> }

BufSizes == {1, 3, 10}

RECURSIVE SumRaw(_)
SumRaw(raw) == IF raw = <<>> THEN 0 ELSE Head(raw)[2] + SumRaw(Tail(raw))

\* Content::reader on a NonResident content: RunReader::new
InitNonResident ==
    /\ kind = "NonResident"
    /\ dev \in DevContents
    /\ data = <<>>
    /\ cpos = 0
    /\ \E raw \in RawRunLists, slack \in 0..MaxSlack :
          /\ slack <= raw[Len(raw)][2]
          /\ runs = LoadRuns(raw, SumRaw(raw) - slack, TRUE).runs
    /\ size = SumLen(runs)
    /\ state = [run |-> 0, pos |-> 0]
    /\ vol_pos \in {0, 7}

\* Content::reader on a Resident content: a Cursor over the data
InitResident ==
    /\ kind = "Resident"
    /\ dev = <<>>
    /\ data \in ResidentData
    /\ cpos = 0
    /\ runs = <<>>
    /\ size = 0
    /\ state = [run |-> 0, pos |-> 0]
    /\ vol_pos = 0

ParseRest ==
    /\ recs = <<>>
    /\ cur_bytes = <<>>
    /\ cur_pos = 0
    /\ cluster_size = 1
    /\ real_size = 0
    /\ raw_runs = <<>>
    /\ abs_offset = 0
    /\ first_byte = 0
    /\ pr_pc = "idle"
    /\ out_runs = <<>>

ParseIdle == overflow_checks = TRUE /\ ParseRest

InitReader ==
    /\ MftIdle
    /\ WriteIdle
    /\ AttrIdle
    /\ IntIdle
    /\ BootIdle
    /\ ParseIdle
    /\ FixIdle
    /\ VolIdle
    /\ InitNonResident \/ InitResident
    /\ ret = [op |-> "none"]
    /\ sequential = TRUE
    /\ out = <<>>

\* ContentReader::size
CRSize == IF kind = "Resident" THEN Len(data) ELSE size

\* ContentReader::stream_position
CRPosition == IF kind = "Resident" THEN cpos ELSE VirtPosition(runs, state)


\* Cursor::read over the Resident data
CursorRead(bytes, pos, n) ==
    LET start == IF pos < Len(bytes) THEN pos ELSE Len(bytes)
        left  == Len(bytes) - start
        nread == IF n < left THEN n ELSE left
    IN  [cpos |-> pos + nread, bytes |-> SubSeq(bytes, start + 1, start + nread)]

\* Cursor::seek: a negative target is an InvalidInput error and moves nothing
CursorSeek(bytes, pos, whence, x) ==
    LET target == CASE whence = "Start"   -> x
                    [] whence = "Current" -> pos + x
                    [] whence = "End"     -> Len(bytes) + x
    IN  IF target < 0 THEN [ok |-> FALSE, cpos |-> pos, val |-> 0]
        ELSE [ok |-> TRUE, cpos |-> target, val |-> target]

\* impl Read for ContentReader: read into a buffer of n bytes
CR_Read(n, pick) ==
    /\ kind \in {"Resident", "NonResident"}
    /\ \E from \in { CRPosition }, after \in { ret.op = "seek" /\ ret.whence = "Start" } :
          IF kind = "Resident"
          THEN \E r \in { CursorRead(data, cpos, n) } :
                  /\ cpos' = r.cpos
                  /\ ret' = [op |-> "read", from |-> from,
                             bytes |-> r.bytes, after |-> after,
                             n |-> n, st0 |-> state, at |-> state,
                             dev_at |-> 0, after_failure |-> FALSE]
                  /\ out' = IF sequential THEN out \o r.bytes ELSE out
                  /\ UNCHANGED <<state, vol_pos>>
          ELSE \E r \in { RunRead(runs, size, state, vol_pos, dev, n, pick) },
                  sk \in { RunReadSeek(runs, size, state, vol_pos) } :
                  /\ state' = r.state
                  /\ vol_pos' = r.vol_pos
                  /\ ret' = [op |-> "read", from |-> from,
                             bytes |-> r.bytes, after |-> after,
                             n |-> n, st0 |-> state, at |-> sk.state,
                             dev_at |-> r.vol_pos - Len(r.bytes),
                             after_failure |-> ret.op \in {"seek_failed", "read_failed"}]
                  /\ out' = IF sequential THEN out \o r.bytes ELSE out
                  /\ UNCHANGED cpos
    /\ UNCHANGED <<kind, dev, data, runs, size, sequential>>
    /\ UNCHANGED notReader

\* impl Seek for ContentReader: seek to a target within 0 ..= size()
CR_Seek(whence, x) ==
    /\ kind \in {"Resident", "NonResident"}
    /\ LET from == CRPosition
       IN  IF kind = "Resident"
           THEN LET r == CursorSeek(data, cpos, whence, x)
                IN  /\ r.ok
                    /\ r.val <= Len(data)
                    /\ cpos' = r.cpos
                    /\ ret' = [op |-> "seek", whence |-> whence, arg |-> x,
                               from |-> from, val |-> r.val]
                    /\ UNCHANGED <<state, vol_pos>>
           ELSE LET offset == SeekOffset(runs, size, state, whence, x)
                    r      == RunSeek(runs, state, offset)
                IN  /\ offset >= 0
                    /\ offset <= size
                    /\ state' = r.state
                    /\ vol_pos' = r.vol_pos
                    /\ ret' = [op |-> "seek", whence |-> whence, arg |-> x,
                               from |-> from, val |-> r.val]
                    /\ UNCHANGED cpos
    /\ sequential' = FALSE
    /\ out' = <<>>
    /\ UNCHANGED <<kind, dev, data, runs, size>>
    /\ UNCHANGED notReader

\* impl Seek for ContentReader: seek to a target beyond size(); neither
\* Cursor::seek nor RunReader::seek compares the target with the size
CR_SeekBeyond(whence, x) ==
    /\ kind \in {"Resident", "NonResident"}
    /\ LET from == CRPosition
       IN  IF kind = "Resident"
           THEN LET r == CursorSeek(data, cpos, whence, x)
                IN  /\ r.val > Len(data)
                    /\ r.val <= Len(data) + MaxDelta
                    /\ cpos' = r.cpos
                    /\ ret' = [op |-> "seek_beyond", whence |-> whence, arg |-> x,
                               from |-> from, val |-> r.val, ok |-> r.ok]
                    /\ UNCHANGED <<state, vol_pos>>
           ELSE LET offset == SeekOffset(runs, size, state, whence, x)
                    r      == RunSeek(runs, state, offset)
                IN  /\ offset > size
                    /\ offset <= size + MaxDelta
                    /\ state' = r.state
                    /\ vol_pos' = r.vol_pos
                    /\ ret' = [op |-> "seek_beyond", whence |-> whence, arg |-> x,
                               from |-> from, val |-> r.val, ok |-> TRUE]
                    /\ UNCHANGED cpos
    /\ sequential' = FALSE
    /\ out' = <<>>
    /\ UNCHANGED <<kind, dev, data, runs, size>>
    /\ UNCHANGED notReader

\* the caller has kept the reader within 0 ..= size(); a reader that was
\* sent beyond its size is not followed further
InRange == ret.op # "seek_beyond"

\* the device hands back one byte or all it is asked for
ReadAny == InRange /\ \E n \in BufSizes : \E pick \in {1, n} : CR_Read(n, pick)

SeekStart == InRange /\ \E x \in 0..CRSize : CR_Seek("Start", x)

SeekCurrent == InRange /\ \E x \in (0 - MaxDelta)..MaxDelta : CR_Seek("Current", x)

SeekEnd == InRange /\ \E x \in (0 - MaxDelta)..0 : CR_Seek("End", x)

SeekBeyond ==
    /\ InRange
    /\ \E whence \in {"Start", "Current", "End"} :
          \E x \in 1..(CRSize + MaxDelta) : CR_SeekBeyond(whence, x)

NextReader == ReadAny \/ SeekStart \/ SeekCurrent \/ SeekEnd \/ SeekBeyond

SpecReader == InitReader /\ [][NextReader]_vars

\* sequential reading: the caller only reads, and goes on reading
SpecCopy == InitReader /\ [][ReadAny]_vars /\ WF_vars(ReadAny)

\* impl Seek for ContentReader on a NonResident content whose device fails
\* the seek: the call returns Err
CR_SeekFails(whence, x) ==
    /\ kind = "NonResident"
    /\ \E offset \in { SeekOffset(runs, size, state, whence, x) } :
          /\ offset >= 0
          /\ offset <= size
          /\ \E r \in { RunSeekFailed(runs, state, vol_pos, offset) } :
                /\ state' = r.state
                /\ vol_pos' \in r.vol_pos
          /\ ret' = [op |-> "seek_failed", whence |-> whence, arg |-> x,
                     from |-> CRPosition, st0 |-> state]
    /\ sequential' = FALSE
    /\ out' = <<>>
    /\ UNCHANGED <<kind, dev, data, cpos, runs, size>>
    /\ UNCHANGED notReader

\* impl Read for ContentReader on a NonResident content whose device fails
\* the seek the read starts with: `self.seek(SeekFrom::Start(vpos))?`
CR_ReadSeekFails ==
    /\ kind = "NonResident"
    /\ \E vpos \in { VirtPosition(runs, state) } :
          /\ vpos = 0 \/ (RunRemaining(runs, state) = 0 /\ vpos < size)
          /\ \E r \in { RunSeekFailed(runs, state, vol_pos, vpos) } :
                /\ state' = r.state
                /\ vol_pos' \in r.vol_pos
          /\ ret' = [op |-> "read_failed", from |-> vpos, st0 |-> state]
    /\ sequential' = FALSE
    /\ out' = <<>>
    /\ UNCHANGED <<kind, dev, data, cpos, runs, size>>
    /\ UNCHANGED notReader

SeekFails ==
    /\ InRange
    /\ \E x \in 0..CRSize : CR_SeekFails("Start", x)

ReadSeekFails == InRange /\ CR_ReadSeekFails

NextReaderIo == NextReader \/ SeekFails \/ ReadSeekFails

\* the reader over a device whose seeks may fail
SpecReaderIo == InitReader /\ [][NextReaderIo]_vars



----------------------------------------------------------------------------
(* parse_mft_header and fixup_buf *)

\* A record buffer is kept as the map from the offsets of its non-zero bytes
\* to those bytes; every other byte of its RecordSize bytes is zero.
Byte(b, i) == IF i \in DOMAIN b THEN b[i] ELSE 0

Put(b, i, v) ==
    [j \in (DOMAIN b \ {i}) \cup (IF v = 0 THEN {} ELSE {i}) |-> IF j = i THEN v ELSE b[j]]

\* the two bytes b[off .. off + 2]
Pair(b, off) == <<Byte(b, off), Byte(b, off + 1)>>

SetPair(b, off, pr) == Put(Put(b, off, pr[1]), off + 1, pr[2])

\* read_u16::<LE> at byte offset off
U16At(b, off) == Byte(b, off) + 256 * Byte(b, off + 1)

\* parse_mft_header: signature, fixup_offset, fixup_entries, attr_offset
ParseMftHeader(b) ==
    IF <<Byte(b, 0), Byte(b, 1), Byte(b, 2), Byte(b, 3)>> # <<70, 73, 76, 69>>
    THEN [st |-> "panic"]
    ELSE [st |-> "ok",
          fixup_offset  |-> U16At(b, 4),
          fixup_entries |-> U16At(b, 6),
          attr_offset   |-> U16At(b, 20)]

SigVals == { <<5, 0>>, <<6, 0>> }

OrigVals == { <<5, 0>>, <<170, 187>> }

TornVal == <<9, 9>>

FixupOffsets == {48, 1023}

SectorSizes == {0, 256, 512, 4096}

\* a record: "FILE", the header fields, the update sequence array at fo,
\* and the last two bytes of every sector
RECURSIVE PutPairs(_, _, _, _, _)
PutPairs(b, base, step, vals, i) ==
    IF i > Len(vals) THEN b
    ELSE PutPairs(SetPair(b, base + step * i, vals[i]), base, step, vals, i + 1)

Record(fo, fe, sig, origs, ss, ends) ==
    LET file == (0 :> 70) @@ (1 :> 73) @@ (2 :> 76) @@ (3 :> 69)
        head == Put(Put(Put(Put(Put(file, 4, fo % 256), 5, fo \div 256),
                            6, fe % 256), 7, fe \div 256), 20, 56)
        usa  == IF fo + 2 * (Len(origs) + 1) <= RecordSize
                THEN PutPairs(SetPair(head, fo, sig), fo, 2, origs, 1)
                ELSE head
    IN  IF ss = 0 THEN usa ELSE PutPairs(usa, 0 - 2, ss, ends, 1)

InitFixup ==
    /\ MftIdle
    /\ WriteIdle
    /\ AttrIdle
    /\ IntIdle
    /\ BootIdle
    /\ ParseIdle
    /\ ReaderIdle
    /\ VolIdle
    /\ sector_size \in SectorSizes
    /\ \E fo \in FixupOffsets, fe \in 0..MaxFixupEntries, sig \in SigVals,
          origs \in [1..MaxFixupEntries -> OrigVals] :
          \E ends \in [1..(IF sector_size = 0 THEN 0 ELSE RecordSize \div sector_size)
                       -> {sig, TornVal}] :
             disk = Record(fo, fe, sig, origs, sector_size, ends)
    /\ buf = disk
    /\ hdr = [fixup_offset |-> 0, fixup_entries |-> 0]
    /\ fx_sig = <<0, 0>>
    /\ fx_entry = 0
    /\ fx_pass = 0
    /\ fx_pc = "idle"

\* parse_mft_header, then fixup_buf up to its loop: offset and sig
FX_Start ==
    /\ fx_pc = "idle"
    /\ LET h == ParseMftHeader(buf)
       IN  IF h.st = "panic" \/ h.fixup_offset + 2 > RecordSize
           THEN /\ fx_pc' = "panic"
                /\ UNCHANGED <<hdr, fx_sig, fx_entry>>
           ELSE /\ hdr' = [fixup_offset |-> h.fixup_offset, fixup_entries |-> h.fixup_entries]
                /\ fx_sig' = Pair(buf, h.fixup_offset)
                /\ fx_entry' = 1
                /\ fx_pc' = "run"
    /\ fx_pass' = 1
    /\ UNCHANGED <<disk, buf, sector_size>>
    /\ UNCHANGED notFix

\* one iteration of `for entry in 1..fixup_entries`: check the sector's last
\* two bytes against sig, then overwrite them from the fixup array
FX_Entry ==
    /\ fx_pc = "run"
    /\ fx_entry < hdr.fixup_entries
    /\ LET orig_offset == hdr.fixup_offset + (fx_entry - 1) * 2
           sector_end  == fx_entry * sector_size
       IN  IF \/ orig_offset + 2 > RecordSize
              \/ sector_end < 2
              \/ sector_end > RecordSize
              \/ Pair(buf, sector_end - 2) # fx_sig
           THEN /\ fx_pc' = "panic"
                /\ UNCHANGED <<buf, fx_entry>>
           ELSE /\ buf' = SetPair(buf, sector_end - 2, Pair(buf, orig_offset))
                /\ fx_entry' = fx_entry + 1
                /\ UNCHANGED fx_pc
    /\ UNCHANGED <<disk, sector_size, hdr, fx_sig, fx_pass>>
    /\ UNCHANGED notFix

\* the loop ends: fixup_buf returns
FX_Return ==
    /\ fx_pc = "run"
    /\ fx_entry >= hdr.fixup_entries
    /\ fx_pc' = "ok"
    /\ UNCHANGED <<disk, buf, sector_size, hdr, fx_sig, fx_entry, fx_pass>>
    /\ UNCHANGED notFix

\* fixup_buf applied once more to the same buffer with the same header
FX_Again ==
    /\ fx_pc = "ok"
    /\ fx_pass = 1
    /\ fx_sig' = Pair(buf, hdr.fixup_offset)
    /\ fx_entry' = 1
    /\ fx_pass' = 2
    /\ fx_pc' = "run"
    /\ UNCHANGED <<disk, buf, sector_size, hdr>>
    /\ UNCHANGED notFix

NextFixup == FX_Start \/ FX_Entry \/ FX_Return \/ FX_Again

SpecFixup == InitFixup /\ [][NextFixup]_vars



----------------------------------------------------------------------------
(* Volume: std::io::BufReader over the raw volume handle *)

Min(a, b) == IF a < b THEN a ELSE b

\* File::read on the raw handle: up to n bytes, none at or past the end
RawRead(raw_pos, n) == IF raw_pos < VolLen THEN Min(n, VolLen - raw_pos) ELSE 0

\* BufReader::fill_buf: refill from the handle once the buffer is used up;
\* base is the volume offset the buffer's first byte was read from
BufFill(v) ==
    IF v.pos >= v.filled
    THEN LET n == RawRead(v.raw_pos, Capacity)
         IN  [v EXCEPT !.raw_pos = v.raw_pos + n, !.pos = 0, !.filled = n,
                       !.base = v.raw_pos]
    ELSE v

\* BufReader::read: [v, n, at]: n bytes that came from volume offset at; an
\* empty buffer and a request of at least the capacity bypass the buffer
BufRead(v, n) ==
    IF v.pos = v.filled /\ n >= Capacity
    THEN LET k == RawRead(v.raw_pos, n)
         IN  [v |-> [v EXCEPT !.raw_pos = v.raw_pos + k, !.pos = 0, !.filled = 0,
                              !.base = v.raw_pos + k],
              n |-> k, at |-> v.raw_pos]
    ELSE LET f == BufFill(v)
             k == Min(n, f.filled - f.pos)
         IN  [v |-> [f EXCEPT !.pos = f.pos + k], n |-> k, at |-> f.base + f.pos]

\* BufReader::read_exact: from the buffer when it holds n bytes, else
\* default_read_exact, a loop of read that fails at the end of the volume;
\* segs lists the pieces [at, n] the bytes were assembled from
RECURSIVE DefaultReadExact(_, _, _)
DefaultReadExact(v, n, segs) ==
    IF n = 0 THEN [v |-> v, ok |-> TRUE, segs |-> segs]
    ELSE LET r == BufRead(v, n)
         IN  IF r.n = 0 THEN [v |-> r.v, ok |-> FALSE, segs |-> segs]
             ELSE DefaultReadExact(r.v, n - r.n, Append(segs, [at |-> r.at, n |-> r.n]))

BufReadExact(v, n) ==
    IF v.filled - v.pos >= n
    THEN [v |-> [v EXCEPT !.pos = v.pos + n], ok |-> TRUE,
          segs |-> <<[at |-> v.base + v.pos, n |-> n]>>]
    ELSE DefaultReadExact(v, n, <<>>)

\* BufReader::stream_position
BufStreamPosition(v) == v.raw_pos - (v.filled - v.pos)

\* BufReader::seek(SeekFrom::Start(x)): seek the handle, discard the buffer;
\* seeks lists the offsets the handle was sent to
BufSeekStart(v, x) ==
    [raw_pos |-> x, pos |-> 0, filled |-> 0, base |-> x, seeks |-> Append(v.seeks, x)]

\* mutant: the handle is moved but the buffer is kept
BufSeekCurrentKeepsBuffer(v, n) ==
    [v EXCEPT !.raw_pos = v.raw_pos + n,
              !.seeks = Append(v.seeks, v.raw_pos + n)]

\* BufReader::seek(SeekFrom::Current(n)): seek the handle by n less the
\* unread rest of the buffer, discard the buffer
BufSeekCurrent(v, n) ==
    LET x == v.raw_pos + (n - (v.filled - v.pos))
    IN  [raw_pos |-> x, pos |-> 0, filled |-> 0, base |-> x, seeks |-> Append(v.seeks, x)]

\* BufReader::seek_relative: inside the buffer when the target is in it
BufSeekRelative(v, offset) ==
    IF offset < 0 /\ v.pos + offset >= 0 THEN [v EXCEPT !.pos = v.pos + offset]
    ELSE IF offset >= 0 /\ v.pos + offset <= v.filled THEN [v EXCEPT !.pos = v.pos + offset]
    ELSE BufSeekCurrent(v, offset)

\* mutant: the raw branch stops at the aligned offset
VolumeSeekStartAligned(v, x) ==
    LET curr_pos == BufStreamPosition(v)
        f        == BufFill(v)
        buf_len  == f.filled - f.pos
    IN  IF x > curr_pos /\ x - curr_pos <= buf_len
        THEN [v |-> BufSeekRelative(f, x - curr_pos), branch |-> "forward"]
        ELSE IF x < curr_pos /\ curr_pos - x <= Capacity - buf_len
        THEN [v |-> BufSeekRelative(f, 0 - (curr_pos - x)), branch |-> "backward"]
        ELSE [v |-> BufFill(BufSeekStart(f, x - (x % Align))), branch |-> "raw"]

\* Volume::seek(SeekFrom::Start(x)), up to its final stream_position()
VolumeSeekStart(v, x) ==
    LET curr_pos == BufStreamPosition(v)
        f        == BufFill(v)
        buf_len  == f.filled - f.pos
    IN  IF x > curr_pos /\ x - curr_pos <= buf_len
        THEN [v |-> BufSeekRelative(f, x - curr_pos), branch |-> "forward"]
        ELSE IF x < curr_pos /\ curr_pos - x <= Capacity - buf_len
        THEN [v |-> BufSeekRelative(f, 0 - (curr_pos - x)), branch |-> "backward"]
        ELSE [v |-> BufSeekRelative(BufFill(BufSeekStart(f, x - (x % Align))), x % Align),
              branch |-> "raw"]

\* mutant: seek(SeekFrom::End(x)) answered with the end of the volume plus x
VolumeSeekEndSupported(v, x) ==
    IF VolLen + x < 0 THEN [v |-> v, ok |-> FALSE]
    ELSE [v |-> VolumeSeekStart(v, VolLen + x).v, ok |-> TRUE]

\* Volume::seek(SeekFrom::End(_)): panic!
VolumeSeekEnd(v, x) == [v |-> v, ok |-> FALSE]

\* the Volume between two operations: nothing logged
Settled(v) == [v EXCEPT !.seeks = <<>>]

\* offsets the Volume is asked to seek to
SeekTargets == {0, 530, 8950, 9530, 18950, Capacity - 100, Capacity + 600,
                VolLen - 200, VolLen + 1000}

\* buffer lengths handed to read and read_exact
ReadSizes == {9000, Capacity}

\* open_volume
InitVolume ==
    /\ MftIdle
    /\ WriteIdle
    /\ AttrIdle
    /\ IntIdle
    /\ BootIdle
    /\ ParseIdle
    /\ ReaderIdle
    /\ FixIdle
    /\ vol = [raw_pos |-> 0, pos |-> 0, filled |-> 0, base |-> 0, seeks |-> <<>>]
    /\ vret = [op |-> "none"]
    /\ vol_pc = "open"

\* impl Read for Volume: read
V_Read(n) ==
    /\ vol_pc = "open"
    /\ LET r == BufRead(BufFill(vol), n)
       IN  /\ vol' = Settled(r.v)
           /\ vret' = [op |-> "read", prev |-> vret.op, from |-> BufStreamPosition(vol),
                       arg |-> n, val |-> r.n, ok |-> TRUE,
                       segs |-> IF r.n = 0 THEN <<>> ELSE <<[at |-> r.at, n |-> r.n]>>,
                       raw_seeks |-> r.v.seeks]
    /\ UNCHANGED vol_pc
    /\ UNCHANGED notVol

\* impl Read for Volume: read_exact
V_ReadExact(n) ==
    /\ vol_pc = "open"
    /\ LET r == BufReadExact(vol, n)
       IN  /\ vol' = Settled(r.v)
           /\ vret' = [op |-> "read_exact", prev |-> vret.op,
                       from |-> BufStreamPosition(vol), arg |-> n,
                       val |-> IF r.ok THEN n ELSE 0, ok |-> r.ok, segs |-> r.segs,
                       raw_seeks |-> r.v.seeks]
    /\ UNCHANGED vol_pc
    /\ UNCHANGED notVol

\* impl Seek for Volume: seek(SeekFrom::Start(x))
V_SeekStart(x) ==
    /\ vol_pc = "open"
    /\ LET r == VolumeSeekStart(vol, x)
       IN  /\ vol' = Settled(r.v)
           /\ vret' = [op |-> "seek_start", from |-> BufStreamPosition(vol), arg |-> x,
                       val |-> BufStreamPosition(r.v), branch |-> r.branch,
                       in_buffer |-> BufFill(vol).pos, raw_seeks |-> r.v.seeks]
    /\ UNCHANGED vol_pc
    /\ UNCHANGED notVol

\* impl Seek for Volume: seek(SeekFrom::Current(x)); a negative target
\* fails u64::try_from
V_SeekCurrent(x) ==
    /\ vol_pc = "open"
    /\ LET offset == BufStreamPosition(vol) + x
       IN  IF offset < 0
           THEN /\ vol_pc' = "panic"
                /\ vret' = [op |-> "seek_current", from |-> BufStreamPosition(vol), arg |-> x,
                            val |-> 0 - 1, branch |-> "panic", in_buffer |-> 0,
                            raw_seeks |-> <<>>]
                /\ UNCHANGED vol
           ELSE LET r == VolumeSeekStart(vol, offset)
                IN  /\ vol' = Settled(r.v)
                    /\ vret' = [op |-> "seek_current", from |-> BufStreamPosition(vol),
                                arg |-> x, val |-> BufStreamPosition(r.v),
                                branch |-> r.branch, in_buffer |-> BufFill(vol).pos,
                                raw_seeks |-> r.v.seeks]
                    /\ UNCHANGED vol_pc
    /\ UNCHANGED notVol

\* impl Seek for Volume: seek(SeekFrom::End(x))
V_SeekEnd(x) ==
    /\ vol_pc = "open"
    /\ LET r == VolumeSeekEnd(vol, x)
       IN  /\ vol' = Settled(r.v)
           /\ vol_pc' = IF r.ok THEN "open" ELSE "panic"
           /\ vret' = [op |-> "seek_end", from |-> BufStreamPosition(vol), arg |-> x,
                       val |-> IF r.ok THEN BufStreamPosition(r.v) ELSE 0 - 1,
                       branch |-> IF r.ok THEN "end" ELSE "panic", in_buffer |-> 0,
                       raw_seeks |-> r.v.seeks]
    /\ UNCHANGED notVol

VolRead == \E n \in ReadSizes : V_Read(n)

VolReadExact == \E n \in ReadSizes : V_ReadExact(n)

VolSeekStart == \E x \in SeekTargets : V_SeekStart(x)

\* seek(Current, d) with the d that leads to one of the targets, or before 0
VolSeekCurrent ==
    \E t \in SeekTargets \cup {0 - 50} : V_SeekCurrent(t - BufStreamPosition(vol))

VolSeekEnd == \E x \in {0 - 100, 0} : V_SeekEnd(x)

NextVolume == VolRead \/ VolReadExact \/ VolSeekStart \/ VolSeekCurrent \/ VolSeekEnd

SpecVolume == InitVolume /\ [][NextVolume]_vars

----------------------------------------------------------------------------
(* parse_boot *)

RECURSIVE PutBytes(_, _, _)
PutBytes(b, off, bytes) ==
    IF bytes = <<>> THEN b
    ELSE PutBytes(Put(b, off, Head(bytes)), off + 1, Tail(bytes))

\* read_u64::<LE> at byte offset off
U64At(b, off) == U64FromLe([k \in 1..8 |-> Byte(b, off + k - 1)])

\* a boot sector: the three fields parse_boot reads, at offsets 11, 13 and 48
BootSector(ss, spc, msc) ==
    PutBytes(PutBytes(PutBytes(<<>>, 11, LeBytes(ss, 2)), 13, LeBytes(spc, 2)),
             48, LeBytes(msc, 8))

BootSectorSizes == {0, 256, 512, 4096}

SectorsPerCluster == {0, 1, 8, 128, 129}

MftStartClusters == {0, 4, 40}

\* a freshly opened volume, its boot sector at offset 0
InitBoot ==
    /\ MftIdle
    /\ WriteIdle
    /\ AttrIdle
    /\ IntIdle
    /\ overflow_checks \in BOOLEAN
    /\ ParseRest
    /\ ReaderIdle
    /\ FixIdle
    /\ VolIdle
    /\ \E ss \in BootSectorSizes, spc \in SectorsPerCluster, msc \in MftStartClusters :
          boot_sec = BootSector(ss, spc, msc)
    /\ boot_pos = 0
    /\ boot = [sector_size |-> 0, sectors_per_cluster |-> 0, cluster_size |-> 0,
               mft_start_cluster |-> 0, mft_start |-> 0]
    /\ boot_pc = "start"

\* u16 * u16: a product out of range panics when the build checks overflow
\* and wraps otherwise
MulU16(a, b, checks) ==
    IF a * b < U16Mod THEN [ok |-> TRUE, val |-> a * b]
    ELSE IF checks THEN [ok |-> FALSE, val |-> 0]
    ELSE [ok |-> TRUE, val |-> (a * b) % U16Mod]

\* u64 * u64, likewise
MulU64(a, b, checks) ==
    IF InU64(a * b) THEN [ok |-> TRUE, val |-> a * b]
    ELSE IF checks THEN [ok |-> FALSE, val |-> 0]
    ELSE [ok |-> TRUE, val |-> Wrap64(a * b)]

\* vol.seek(SeekFrom::Current(11)); sector_size = vol.read_u16()
PB_SectorSize ==
    /\ boot_pc = "start"
    /\ boot' = [boot EXCEPT !.sector_size = U16At(boot_sec, boot_pos + 11)]
    /\ boot_pos' = boot_pos + 11 + 2
    /\ boot_pc' = "spc"
    /\ UNCHANGED boot_sec
    /\ UNCHANGED notBoot

\* sectors_per_cluster = vol.read_u16(); cluster_size = sector_size * sectors_per_cluster
PB_ClusterSize ==
    /\ boot_pc = "spc"
    /\ LET spc == U16At(boot_sec, boot_pos)
           r   == MulU16(boot.sector_size, spc, overflow_checks)
       IN  /\ boot' = [boot EXCEPT !.sectors_per_cluster = spc, !.cluster_size = r.val]
           /\ boot_pc' = IF r.ok THEN "mft" ELSE "panic"
    /\ boot_pos' = boot_pos + 2
    /\ UNCHANGED boot_sec
    /\ UNCHANGED notBoot

\* vol.seek(SeekFrom::Current(33)); mft_start_cluster = vol.read_u64();
\* mft_start = mft_start_cluster * cluster_size; Ok(Boot { .. })
PB_MftStart ==
    /\ boot_pc = "mft"
    /\ LET msc == U64At(boot_sec, boot_pos + 33)
           r   == MulU64(msc, boot.cluster_size, overflow_checks)
       IN  /\ boot' = [boot EXCEPT !.mft_start_cluster = msc, !.mft_start = r.val]
           /\ boot_pc' = IF r.ok THEN "ok" ELSE "panic"
    /\ boot_pos' = boot_pos + 33 + 8
    /\ UNCHANGED boot_sec
    /\ UNCHANGED notBoot

NextBoot == PB_SectorSize \/ PB_ClusterSize \/ PB_MftStart

SpecBoot == InitBoot /\ [][NextBoot]_vars

----------------------------------------------------------------------------
(* parse_mft_entry: header, fixup and attributes of one 1024-byte record *)

\* the record buffer with the bytes read_exact filled it with
Sparse(bytes) ==
    [i \in { j - 1 : j \in { k \in 1..Len(bytes) : bytes[k] # 0 } } |-> bytes[i + 1]] @@ <<>>

\* read_u32::<LE> at byte offset off
U32At(b, off) == U16At(b, off) + 65536 * U16At(b, off + 2)

\* what a cursor over the record still has to give from offset off on
BytesFrom(b, off) == [k \in 1..(RecordSize - off) |-> Byte(b, off + k - 1)]

\* parse_run_list, the `while first_byte > 0` loop
RECURSIVE ParseRunRecords(_, _, _, _, _, _, _)
ParseRunRecords(bytes, pos, first, abs, cluster, raw, checks) ==
    IF first = 0 THEN [st |-> "ok", raw |-> raw]
    ELSE LET lb == ReadIntBytes(first % 16, bytes, pos, FALSE)
             ob == ReadIntBytes(first \div 16, bytes, lb.pos, TRUE)
             offset == abs + I64FromLe(ob.bytes)
             boff == offset * cluster
             blen == U64FromLe(lb.bytes) * cluster
             nb == ReadU8(bytes, ob.pos)
         IN  IF lb.st # "ok" THEN [st |-> lb.st, raw |-> raw]
             ELSE IF ob.st # "ok" THEN [st |-> ob.st, raw |-> raw]
             ELSE IF offset < 0 \/ (checks /\ (~InU64(boff) \/ ~InU64(blen)))
             THEN [st |-> "panic", raw |-> raw]
             ELSE IF nb.st # "ok" THEN [st |-> "err", raw |-> raw]
             ELSE ParseRunRecords(bytes, nb.pos, nb.val, offset, cluster,
                                  Append(raw, <<Wrap64(boff), Wrap64(blen)>>), checks)

\* parse_run_list
ParseRunList(bytes, cluster, sz, checks) ==
    LET fb == ReadU8(bytes, 0)
        rr == ParseRunRecords(bytes, fb.pos, fb.val, 0, cluster, <<>>, checks)
    IN  IF fb.st # "ok" THEN [st |-> "err", runs |-> <<>>]
        ELSE IF rr.st # "ok" THEN [st |-> rr.st, runs |-> <<>>]
        ELSE LoadRuns(rr.raw, sz, checks)

\* parse_mft_attr at start_pos: the content is Resident data copied out of
\* the cursor, or the NonResident run list
ParseMftAttr(c, start_pos, cluster, checks) ==
    IF start_pos + 22 > RecordSize THEN [st |-> "err"]
    ELSE IF Byte(c, start_pos + 8) = 0
    THEN LET sz     == U32At(c, start_pos + 16)
             offset == U16At(c, start_pos + 20)
         IN  IF start_pos + offset + sz > RecordSize THEN [st |-> "err"]
             ELSE [st |-> "ok", attr_type |-> U32At(c, start_pos), length |-> U32At(c, start_pos + 4),
                   kind |-> "Resident", data_at |-> start_pos + offset,
                   data |-> [k \in 1..sz |-> Byte(c, start_pos + offset + k - 1)],
                   size |-> sz, runs |-> <<>>]
    ELSE IF start_pos + 56 > RecordSize THEN [st |-> "err"]
    ELSE LET run_offset == U16At(c, start_pos + 32)
             sz == U64At(c, start_pos + 48)
             rl == IF start_pos + run_offset > RecordSize THEN [st |-> "err", runs |-> <<>>]
                   ELSE ParseRunList(BytesFrom(c, start_pos + run_offset), cluster, sz, checks)
         IN  IF rl.st # "ok" THEN [st |-> rl.st]
             ELSE [st |-> "ok", attr_type |-> U32At(c, start_pos), length |-> U32At(c, start_pos + 4),
                   kind |-> "NonResident", data_at |-> 0, data |-> <<>>,
                   size |-> sz, runs |-> rl.runs]

\* parse_mft_attrs: attributes until read_u16 gives 0xFFFF
RECURSIVE ParseMftAttrs(_, _, _, _, _)

\* parse_mft_attrs after parse_mft_attr gave a: push it and go to the next
ParseMftAttrsNext(c, pos, cluster, checks, attrs, a) ==
    IF a.st # "ok" THEN [st |-> a.st, attrs |-> attrs]
    \* an attribute of length 0 is parsed again and again
    ELSE IF a.length = 0 THEN [st |-> "hang", attrs |-> attrs]
    ELSE ParseMftAttrs(c, pos + a.length, cluster, checks, Append(attrs, a))

ParseMftAttrs(c, pos, cluster, checks, attrs) ==
    IF pos + 2 > RecordSize THEN [st |-> "err", attrs |-> attrs]
    ELSE IF U16At(c, pos) = 65535 THEN [st |-> "ok", attrs |-> attrs]
    ELSE ParseMftAttrsNext(c, pos, cluster, checks, attrs,
                           ParseMftAttr(c, pos, cluster, checks))

\* fixup_buf, the `for entry in 1..fixup_entries` loop
RECURSIVE FixupLoop(_, _, _, _, _)
FixupLoop(ss, h, sig, b, entry) ==
    IF entry >= h.fixup_entries THEN [st |-> "ok", buf |-> b]
    ELSE LET orig_offset == h.fixup_offset + (entry - 1) * 2
             sector_end  == entry * ss
         IN  IF \/ orig_offset + 2 > RecordSize
                \/ sector_end < 2
                \/ sector_end > RecordSize
                \/ Pair(b, sector_end - 2) # sig
             THEN [st |-> "panic", buf |-> b]
             ELSE FixupLoop(ss, h, sig, SetPair(b, sector_end - 2, Pair(b, orig_offset)),
                            entry + 1)

\* fixup_buf
FixupBuf(ss, h, b) ==
    IF h.fixup_offset + 2 > RecordSize THEN [st |-> "panic", buf |-> b]
    ELSE FixupLoop(ss, h, Pair(b, h.fixup_offset), b, 1)

\* Ok(MFTEntry { header, attrs, .. }) of parse_mft_entry; buf is the record
\* after fixup_buf
ParseMftEntryResult(h, f, a) ==
    IF a.st # "ok" THEN [st |-> a.st]
    ELSE [st |-> "ok", header |-> h, attrs |-> a.attrs, buf |-> f.buf]

\* parse_mft_entry from `let attrs = parse_mft_attrs(&mut cur, ..)` on
ParseMftEntryAttrs(cur, cluster, checks, h, f) ==
    ParseMftEntryResult(h, f,
        IF f.st = "ok" THEN ParseMftAttrs(cur, h.attr_offset, cluster, checks, <<>>)
        ELSE [st |-> "panic", attrs |-> <<>>])

\* parse_mft_entry from `fixup_buf(&header, &mut buf)` on
ParseMftEntryFixup(ss, cluster, cur, b, checks, h) ==
    ParseMftEntryAttrs(cur, cluster, checks, h,
        IF h.st = "ok" THEN FixupBuf(ss, h, b) ELSE [st |-> "panic", buf |-> b])

\* parse_mft_entry from `Cursor::new(buf)` on: the cursor holds a copy of
\* the array, made before fixup_buf patches buf
ParseMftEntryCursor(ss, cluster, b, checks) ==
    ParseMftEntryFixup(ss, cluster, b, b, checks, ParseMftHeader(b))

\* parse_mft_entry over the bytes read_exact delivered
ParseMftEntry(ss, cluster, bytes, checks) ==
    IF Len(bytes) < RecordSize THEN [st |-> "err"]
    ELSE ParseMftEntryCursor(ss, cluster, Sparse(bytes), checks)

----------------------------------------------------------------------------
(* The volume of the MFT facade: $MFT in two runs, four records *)

\* boot.cluster_size of the volume
MftClusterSize == 512

\* the run list of $MFT in clusters: 3 clusters at cluster 8, then 6 at cluster 2
MftRunRecs ==
    << [L |-> 1, O |-> 1, length |-> 3, delta |-> 8],
       [L |-> 1, O |-> 1, length |-> 6, delta |-> 0 - 6] >>

\* bytes of $MFT that are in use: four records
MftSize == 4096

\* bytes on the volume
MftVolLen == 5632

\* update sequence number on disk and the two bytes it displaced in record r
MftSig == <<6, 0>>

MftOrig(r) == <<r + 1, 7>>

\* attr_offset of the model's records and the value offset of their attribute
MftAttrOffset == 486

\* the bytes placed at offset off
Seg(off, bytes) == [i \in off..(off + Len(bytes) - 1) |-> bytes[i - off + 1]]

\* the $DATA attribute of record r at MftAttrOffset: the run list of $MFT in
\* record 0, eight resident bytes (from offset 510 on) in the others; then
\* the end marker
MftAttr(r) ==
    IF r = 0
    THEN Seg(MftAttrOffset, <<128, 0, 0, 0, 80, 0, 0, 0, 1>>)
         @@ Seg(MftAttrOffset + 32, <<64, 0>>)
         @@ Seg(MftAttrOffset + 40, LeBytes(9 * MftClusterSize, 8))
         @@ Seg(MftAttrOffset + 48, LeBytes(MftSize, 8))
         @@ Seg(MftAttrOffset + 64, EncodeRecs(MftRunRecs) \o <<0>>)
         @@ Seg(MftAttrOffset + 80, <<255, 255, 255, 255>>)
    ELSE Seg(MftAttrOffset, <<128, 0, 0, 0, 40, 0, 0, 0, 0>>)
         @@ Seg(MftAttrOffset + 16, <<8, 0, 0, 0, 24, 0>>)
         @@ Seg(MftAttrOffset + 24, MftOrig(r) \o <<r, r, r, r, r, r>>)
         @@ Seg(MftAttrOffset + 40, <<255, 255, 255, 255>>)

\* record r as it lies on disk with sectors of ss bytes: "FILE", the update
\* sequence array at 48, the attribute, and the update sequence number in
\* the last two bytes of every sector; torn: the last sector was not written
MftRecord(r, ss, torn) ==
    LET n    == RecordSize \div ss
        body == Seg(0, <<70, 73, 76, 69, 48, 0, n + 1, 0>>)
                @@ Seg(20, LeBytes(MftAttrOffset, 2))
                @@ MftAttr(r)
        usa  == [o \in 48..(48 + 2 * n + 1) |->
                    IF o < 50 THEN MftSig[o - 47]
                    ELSE Byte(body, ss * ((o - 48) \div 2) - 2 + (o % 2))]
        ends == [o \in UNION { {ss * i - 2, ss * i - 1} : i \in 1..n } |->
                    IF torn /\ o >= RecordSize - 2
                    THEN TornVal[o - (RecordSize - 2) + 1]
                    ELSE MftSig[2 - (ss * ((o + 2) \div ss) - 1 - o)]]
    IN  ends @@ usa @@ body

\* the records of $MFT: $MFT itself, a file, an unused slot, a torn record
MftRecs(ss) ==
    << MftRecord(0, ss, FALSE), MftRecord(1, ss, FALSE), <<>>, MftRecord(3, ss, TRUE) >>

MftRecs256 == MftRecs(256)

MftRecs512 == MftRecs(512)

MftTable(ss) == IF ss = 256 THEN MftRecs256 ELSE MftRecs512

\* the 1024 bytes of record idx
VirtBytes(ss, idx) ==
    LET table == MftTable(ss)
    IN  IF idx + 1 \in DOMAIN table
        THEN SubSeq([k \in 1..RecordSize |-> Byte(table[idx + 1], k - 1)], 1, RecordSize)
        ELSE <<>>

\* byte v of the $MFT data stream
VirtByte(table, v) ==
    IF v < MftSize THEN Byte(table[v \div RecordSize + 1], v % RecordSize) ELSE 0

\* the volume: clusters 8..10 hold the first 1536 bytes of $MFT, clusters 2..7
\* the rest
MftVolume(ss) ==
    LET table == MftTable(ss)
        c     == MftClusterSize
        v     == [i \in 1..MftVolLen |->
                    IF i - 1 >= 8 * c /\ i - 1 < 11 * c THEN VirtByte(table, i - 1 - 8 * c)
                    ELSE IF i - 1 >= 2 * c /\ i - 1 < 8 * c
                    THEN VirtByte(table, i - 1 - 2 * c + 3 * c)
                    ELSE 0]
    IN  SubSeq(v, 1, MftVolLen)

MftVolume256 == MftVolume(256)

MftVolume512 == MftVolume(512)

MftVol(ss) == IF ss = 256 THEN MftVolume256 ELSE MftVolume512

----------------------------------------------------------------------------
(* The MFT facade: MFT::open, MFT::open_entry, MFTEntry::data *)

\* boot.mft_start of the volume
MftStart == 8 * MftClusterSize

\* open_volume: File::open gives a handle of its own, positioned at 0
OpenVolume(hs) ==
    LET h == CHOOSE i \in 1..Len(hs) : hs[i] < 0 /\ \A j \in 1..(i - 1) : hs[j] >= 0
    IN  [h |-> h, handles |-> [hs EXCEPT ![h] = 0]]

\* mutant: data() reads through the handle of the $MFT stream m
EntryDataVolumeShared(hs, m) == [h |-> m.h, handles |-> hs]

\* MFTEntry::data, `let vol = open_volume(&self.volume)?`: a handle of the
\* entry's own, whatever the $MFT stream m reads through
EntryDataVolume(hs, m) == OpenVolume(hs)

\* MFTEntry::content: the first attribute of type 128
RECURSIVE EntryContent(_)
EntryContent(attrs) ==
    IF attrs = <<>> THEN [st |-> "none"]
    ELSE IF Head(attrs).attr_type = 128 THEN Head(attrs)
    ELSE EntryContent(Tail(attrs))

\* mutant: one read instead of read_exact
RunReadOnce(rs, sz, d, n, acc, r) ==
    [ok |-> Len(r.bytes) = n, state |-> r.state, vol_pos |-> r.vol_pos, bytes |-> r.bytes]

\* read_exact over a RunReader: read until the buffer is full; a read of 0
\* bytes is UnexpectedEof
RECURSIVE RunReadExact(_, _, _, _, _, _, _)

\* read_exact after a read gave r
RunReadExactNext(rs, sz, d, n, acc, r) ==
    IF r.bytes = <<>>
    THEN [ok |-> FALSE, state |-> r.state, vol_pos |-> r.vol_pos, bytes |-> acc]
    ELSE RunReadExact(rs, sz, r.state, r.vol_pos, d, n - Len(r.bytes), acc \o r.bytes)

RunReadExact(rs, sz, st, vp, d, n, acc) ==
    IF n = 0 THEN [ok |-> TRUE, state |-> st, vol_pos |-> vp, bytes |-> acc]
    ELSE RunReadExactNext(rs, sz, d, n, acc, RunRead(rs, sz, st, vp, d, n, n))

\* mutant: the stream is only sought when the record lies ahead
OpenEntrySeekForward(rs, st, idx) ==
    IF idx * RecordSize >= VirtPosition(rs, st) THEN RunSeek(rs, st, idx * RecordSize)
    ELSE RunSeek(rs, st, VirtPosition(rs, st))

\* self.data.seek(SeekFrom::Start(u64::try_from(idx).unwrap() * 1024))
OpenEntrySeek(rs, st, idx) == RunSeek(rs, st, idx * RecordSize)

\* the offsets of a record that fixup_buf is to restore: the last two bytes
\* of each sector
SectorEnds(ss) ==
    { k \in 0..(RecordSize - 1) : (k + 1) % ss = 0 \/ (k + 2) % ss = 0 }

\* the records of $MFT
Records256 == [idx \in 0..(MftSize \div RecordSize) |-> VirtBytes(256, idx)] @@ <<>>

Records512 == [idx \in 0..(MftSize \div RecordSize) |-> VirtBytes(512, idx)] @@ <<>>

Records(ss) == IF ss = 256 THEN Records256 ELSE Records512

\* parse_mft_entry of each record of $MFT
Parsed256 ==
    [idx \in DOMAIN Records256 |->
        ParseMftEntry(256, MftClusterSize, Records256[idx], TRUE)] @@ <<>>

Parsed512 ==
    [idx \in DOMAIN Records512 |->
        ParseMftEntry(512, MftClusterSize, Records512[idx], TRUE)] @@ <<>>

Parsed(ss, idx) == IF ss = 256 THEN Parsed256[idx] ELSE Parsed512[idx]

\* parse_mft_entry(boot.sector_size, boot.cluster_size, .., &mut self.data)
\* after read_exact gave rd
OpenEntryParse(ss, rd) ==
    [state |-> rd.state, vol_pos |-> rd.vol_pos, bytes |-> rd.bytes,
     parsed |-> IF rd.ok THEN ParseMftEntry(ss, MftClusterSize, rd.bytes, TRUE)
                ELSE [st |-> "err"]]

\* open_entry after the seek gave sk: read_exact of one record
OpenEntryRead(ss, rs, sz, sk) ==
    OpenEntryParse(ss, RunReadExact(rs, sz, sk.state, sk.vol_pos, MftVol(ss),
                                    RecordSize, <<>>))

\* MFT::open_entry on a stream in state st: seek, then parse_mft_entry
OpenEntry(ss, rs, sz, st, idx) == OpenEntryRead(ss, rs, sz, OpenEntrySeek(rs, st, idx))

\* the state MFT::open leaves: the boot handle (1) was used to parse record
\* 0 at mft_start and is dropped, MFT.data is the reader data() made for
\* record 0 over a handle of its own (2)
InitMft ==
    /\ IntIdle
    /\ AttrIdle
    /\ WriteIdle
    /\ BootIdle
    /\ ParseIdle
    /\ ReaderIdle
    /\ FixIdle
    /\ VolIdle
    /\ mft_ss \in {256, 512}
    /\ \E e0 \in { ParseMftEntry(mft_ss, MftClusterSize,
                        SubSeq(MftVol(mft_ss), MftStart + 1, MftStart + RecordSize), TRUE) } :
       \E c0 \in { EntryContent(e0.attrs) } :
       \E ov \in { OpenVolume(<<MftStart + RecordSize, 0 - 1, 0 - 1>>) } :
          /\ handles = [ov.handles EXCEPT ![1] = 0 - 1]
          /\ mft = [h |-> ov.h, runs |-> c0.runs, size |-> SumLen(c0.runs),
                    state |-> [run |-> 0, pos |-> 0]]
    /\ mft_entry = [st |-> "none", idx |-> 0, prev |-> "none", failed |-> FALSE,
                    exact |-> TRUE, fresh |-> TRUE, attrs |-> <<>>, ends |-> <<>>]
    /\ rdr = [open |-> FALSE]
    /\ solo = [mft_state |-> [run |-> 0, pos |-> 0], mft_pos |-> 0,
               rdr_state |-> [run |-> 0, pos |-> 0], rdr_pos |-> 0, same |-> TRUE]

\* MFT::open_entry(idx); a caller that caught a panic calls again
M_OpenEntry(idx) ==
    /\ mft.h > 0
    /\ \E r \in { OpenEntry(mft_ss, mft.runs, mft.size, mft.state, idx) } :
       \E a \in { OpenEntry(mft_ss, mft.runs, mft.size, solo.mft_state, idx) } :
           /\ mft' = [mft EXCEPT !.state = r.state]
           /\ handles' = [handles EXCEPT ![mft.h] = r.vol_pos]
           /\ mft_entry' = [st |-> r.parsed.st, idx |-> idx, prev |-> mft_entry.st,
                            failed |-> mft_entry.failed \/ mft_entry.st \in {"panic", "err"},
                            exact |-> r.bytes = Records(mft_ss)[idx],
                            fresh |-> r.parsed = Parsed(mft_ss, idx),
                            attrs |-> IF r.parsed.st = "ok" THEN r.parsed.attrs ELSE <<>>,
                            ends  |-> IF r.parsed.st = "ok"
                                      THEN [k \in SectorEnds(mft_ss) |-> Byte(r.parsed.buf, k)]
                                      ELSE <<>>]
           /\ solo' = [solo EXCEPT !.mft_state = a.state, !.mft_pos = a.vol_pos,
                                   !.same = (a.parsed = r.parsed /\ a.bytes = r.bytes)]
    /\ UNCHANGED <<mft_ss, rdr>>
    /\ UNCHANGED notMft

\* MFTEntry::data on the entry last opened: open_volume, then the reader of
\* its $DATA content; the reader made before is dropped
M_Data ==
    /\ mft_entry.st = "ok"
    /\ EntryContent(mft_entry.attrs).st = "ok"
    /\ \E c \in { EntryContent(mft_entry.attrs) } :
       \E ov \in { EntryDataVolume(IF rdr.open THEN [handles EXCEPT ![rdr.h] = 0 - 1]
                                    ELSE handles, mft) } :
           /\ handles' = ov.handles
           /\ rdr' = [open |-> TRUE, kind |-> c.kind, h |-> ov.h, runs |-> c.runs,
                      size |-> SumLen(c.runs), state |-> [run |-> 0, pos |-> 0],
                      got |-> 0, val |-> 0]
    /\ solo' = [solo EXCEPT !.rdr_state = [run |-> 0, pos |-> 0], !.rdr_pos = 0,
                            !.same = TRUE]
    /\ UNCHANGED <<mft_ss, mft, mft_entry>>
    /\ UNCHANGED notMft

\* read on the entry's reader
M_RdrRead(n) ==
    /\ rdr.open
    /\ rdr.kind = "NonResident"
    /\ \E r \in { RunRead(rdr.runs, rdr.size, rdr.state, handles[rdr.h], MftVol(mft_ss),
                           n, n) } :
       \E a \in { RunRead(rdr.runs, rdr.size, solo.rdr_state, solo.rdr_pos, MftVol(mft_ss),
                           n, n) } :
           /\ rdr' = [rdr EXCEPT !.state = r.state, !.got = Len(r.bytes)]
           /\ handles' = [handles EXCEPT ![rdr.h] = r.vol_pos]
           /\ solo' = [solo EXCEPT !.rdr_state = a.state, !.rdr_pos = a.vol_pos,
                                   !.same = (a.bytes = r.bytes)]
    /\ UNCHANGED <<mft_ss, mft, mft_entry>>
    /\ UNCHANGED notMft

\* seek(SeekFrom::Start(x)) on the entry's reader
M_RdrSeek(x) ==
    /\ rdr.open
    /\ rdr.kind = "NonResident"
    /\ x <= rdr.size
    /\ \E r \in { RunSeek(rdr.runs, rdr.state, x) } :
       \E a \in { RunSeek(rdr.runs, solo.rdr_state, x) } :
           /\ rdr' = [rdr EXCEPT !.state = r.state, !.val = r.val]
           /\ handles' = [handles EXCEPT ![rdr.h] = r.vol_pos]
           /\ solo' = [solo EXCEPT !.rdr_state = a.state, !.rdr_pos = a.vol_pos,
                                   !.same = (a.val = r.val)]
    /\ UNCHANGED <<mft_ss, mft, mft_entry>>
    /\ UNCHANGED notMft

MftOpenEntry == \E idx \in 0..(MftSize \div RecordSize) : M_OpenEntry(idx)

MftRdrRead == \E n \in {700, RecordSize} : M_RdrRead(n)

MftRdrSeek == \E x \in {0, 1500, MftSize} : M_RdrSeek(x)

NextMft == MftOpenEntry \/ M_Data \/ MftRdrRead \/ MftRdrSeek

SpecMft == InitMft /\ [][NextMft]_vars

----------------------------------------------------------------------------
(* read_int_bytes on its own: one call on a cursor over a few bytes        *)

\* num_bytes is a u8; 9 is the first value the assert rejects
NumBytes == 0..9

\* the bytes under the cursor: every sign pattern at every length
IntInputs ==
    { <<128, 127, 128, 127, 128, 127, 128, 127, 128>>,
      <<127, 128, 127, 128, 127, 128, 127, 128, 127>>,
      <<255, 255, 255, 255, 255, 255, 255, 255, 255>>,
      <<0, 0, 0, 0, 0, 0, 0, 0, 0>>,
      <<1, 0, 0, 128, 0, 0, 0, 0, 0>>,
      <<52, 18, 240, 1, 35, 69, 103, 137, 171>>,
      <<254, 255, 1>> }

InitInt ==
    /\ ri_bytes \in IntInputs
    /\ ri_pos \in {0, 1}
    /\ ri_n \in NumBytes
    /\ ri_signed \in BOOLEAN
    /\ ri_ret = [st |-> "none"]
    /\ ParseIdle /\ ParseRest
    /\ ReaderIdle
    /\ FixIdle
    /\ VolIdle
    /\ BootIdle
    /\ MftIdle
    /\ WriteIdle
    /\ AttrIdle

\* read_int_bytes(num_bytes, cur, signed)
RI_Call ==
    /\ ri_ret.st = "none"
    /\ ri_ret' = ReadIntBytes(ri_n, ri_bytes, ri_pos, ri_signed)
    /\ UNCHANGED <<ri_bytes, ri_pos, ri_n, ri_signed>>
    /\ UNCHANGED notInt

NextInt == RI_Call

SpecInt == InitInt /\ [][NextInt]_vars

----------------------------------------------------------------------------
(* parse_mft_attrs, one loop iteration at a time *)

\* attributes of which the model keeps the contents; the scan goes on after
\* them, the later ones are pushed without being recorded
MaxAttrs == 4

\* slots a record is built from
MaxSlots == 3

\* where parse_mft_entry leaves the cursor: header.attr_offset
AttrStarts == {56, 1000}

\* the two halves of the attr_type field: $STANDARD_INFORMATION, $DATA, a
\* type whose high half is set, a type whose low half is 0xFFFF
SlotTypes == { <<16, 0>>, <<128, 0>>, <<128, 32767>>, <<65535, 1>> }

SlotLengths == {0, 24, 32}

\* a slot: a Resident attribute with two bytes of data inside its header, a
\* NonResident one of size 0 whose run list has no record, or the end marker
AttrSlots ==
    { [kind |-> "res", ty |-> t, length |-> l] : t \in SlotTypes, l \in SlotLengths }
    \cup { [kind |-> "nonres", ty |-> <<128, 0>>, length |-> 72],
           [kind |-> "end", ty |-> <<65535, 65535>>, length |-> 0] }

SlotBytes(s, p) ==
    IF s.kind = "end" THEN Seg(p, <<255, 255, 255, 255>>)
    ELSE IF s.kind = "res"
    THEN Seg(p, LeBytes(s.ty[1], 2) \o LeBytes(s.ty[2], 2) \o LeBytes(s.length, 4))
         @@ Seg(p + 16, <<2, 0, 0, 0, 22, 0, 7, 7>>)
    ELSE Seg(p, LeBytes(s.ty[1], 2) \o LeBytes(s.ty[2], 2) \o LeBytes(s.length, 4) \o <<1>>)
         @@ Seg(p + 32, <<64, 0>>)
         @@ Seg(p + 64, <<0>>)

\* the slots laid out one after the other from p on; a slot of length 0 is
\* followed at the end of its 24 header bytes
RECURSIVE SlotsAt(_, _)
SlotsAt(slots, p) ==
    IF slots = <<>> THEN <<>>
    ELSE LET s == Head(slots)
         IN  SlotBytes(s, p)
             @@ SlotsAt(Tail(slots), p + (IF s.length = 0 THEN 24 ELSE s.length))

\* the record: the bytes of the slots that lie within its RecordSize bytes
AttrRecord(slots, p) ==
    LET b == SlotsAt(slots, p)
    IN  [i \in { j \in DOMAIN b : j < RecordSize /\ b[j] # 0 } |-> b[i]] @@ <<>>

InitAttrs ==
    /\ AttrIdle
    /\ overflow_checks \in BOOLEAN
    /\ ParseRest
    /\ ReaderIdle
    /\ FixIdle
    /\ VolIdle
    /\ BootIdle
    /\ MftIdle
    /\ WriteIdle
    /\ IntIdle

\* parse_mft_attrs(cur, cluster_size) is called with the cursor on a record
AT_Call ==
    /\ at_pc = "idle"
    /\ \E n \in 1..MaxSlots : \E slots \in [1..n -> AttrSlots], p \in AttrStarts :
          /\ at_rec' = AttrRecord(slots, p)
          /\ at_start' = p
          /\ at_pos' = p
    /\ at_attrs' = <<>>
    /\ at_pc' = "scan"
    /\ UNCHANGED notAttr

\* `while cur.read_u16::<LE>()? != u16::MAX`, then `cur.seek(Current(-2))`
AT_ReadType ==
    /\ at_pc = "scan"
    /\ at_pc' = IF at_pos + 2 > RecordSize THEN "err"
                ELSE IF U16At(at_rec, at_pos) = 65535 THEN "ok"
                ELSE "attr"
    /\ UNCHANGED <<at_rec, at_start, at_pos, at_attrs>>
    /\ UNCHANGED notAttr

\* parse_mft_attr, `cur.seek(Start(pos + attr.length))`, `attrs.push(attr)`
AT_ParseAttr ==
    /\ at_pc = "attr"
    /\ \E a \in { ParseMftAttr(at_rec, at_pos, 1, overflow_checks) } :
          IF a.st # "ok"
          THEN /\ at_pc' = a.st
               /\ UNCHANGED <<at_pos, at_attrs>>
          ELSE /\ at_pc' = "scan"
               /\ at_pos' = at_pos + a.length
               /\ at_attrs' = IF Len(at_attrs) < MaxAttrs
                              THEN Append(at_attrs,
                                          [at |-> at_pos, lo |-> a.attr_type % 65536,
                                           hi |-> a.attr_type \div 65536,
                                           length |-> a.length])
                              ELSE at_attrs
    /\ UNCHANGED <<at_rec, at_start>>
    /\ UNCHANGED notAttr

NextAttrs == AT_Call \/ AT_ReadType \/ AT_ParseAttr

SpecAttrs == InitAttrs /\ [][NextAttrs]_vars

\* once called, the loop of parse_mft_attrs runs on until it returns
SpecAttrsFair == SpecAttrs /\ WF_vars(AT_ReadType \/ AT_ParseAttr)

----------------------------------------------------------------------------
(* write_content of main.rs on a NonResident content *)

\* bytes of content
MaxWriteSize == 9

\* runs of the content and clusters of a run
MaxWriteRuns == 2

MaxWriteLen == 3

\* bytes on the source volume
WriteSrcLen == 40

WriteClusterSizes == {2, 4}

\* the offset field of a run: a delta in clusters
WriteDeltas == {0 - 1, 0, 2, 9}

WriteRuns == [length : 0..MaxWriteLen, offset : WriteDeltas]

InitWrite ==
    /\ wc_cs \in WriteClusterSizes
    /\ wc_size \in 0..MaxWriteSize
    /\ \E n \in 0..MaxWriteRuns : wc_runs \in [1..n -> WriteRuns]
    /\ wc_k = 1
    /\ wc_i = 0
    /\ wc_offset = 0
    /\ wc_remaining = wc_size
    /\ wc_buflen = wc_cs
    /\ wc_src = 0
    /\ wc_written = 0
    /\ wc_pc = "run"
    /\ overflow_checks \in BOOLEAN
    /\ ParseRest
    /\ ReaderIdle
    /\ FixIdle
    /\ VolIdle
    /\ BootIdle
    /\ MftIdle
    /\ IntIdle
    /\ AttrIdle

\* `for run_list in run_lists`: the offset and the seek, or the return
WC_Run ==
    /\ wc_pc = "run"
    /\ IF wc_k > Len(wc_runs)
       THEN /\ wc_pc' = "ok"
            /\ UNCHANGED <<wc_offset, wc_src, wc_i>>
       ELSE \E o \in { wc_offset + wc_runs[wc_k].offset } :
               /\ wc_offset' = o
               /\ wc_i' = 0
               \* u64::try_from(offset).unwrap()
               /\ IF o < 0
                  THEN wc_pc' = "panic" /\ UNCHANGED wc_src
                  ELSE wc_pc' = "cluster" /\ wc_src' = o * wc_cs
    /\ UNCHANGED <<wc_cs, wc_size, wc_runs, wc_k, wc_remaining, wc_buflen, wc_written>>
    /\ UNCHANGED notWrite

\* one pass of `for i in 0..run_list.length`, len the length of buf after
\* the resize
WC_ClusterNext(len) ==
    \* assert_eq!(i + 1, run_list.length)
    IF wc_remaining < wc_cs /\ wc_i + 1 # wc_runs[wc_k].length
    THEN /\ wc_pc' = "panic"
         /\ wc_buflen' = len
         /\ UNCHANGED <<wc_k, wc_i, wc_remaining, wc_src, wc_written>>
    \* source.read_exact(buf)
    ELSE IF wc_src + len > WriteSrcLen
    THEN /\ wc_pc' = "err"
         /\ wc_buflen' = len
         /\ wc_src' = WriteSrcLen
         /\ UNCHANGED <<wc_k, wc_i, wc_remaining, wc_written>>
    \* dest.write(buf), remaining = remaining - cs
    ELSE /\ wc_buflen' = len
         /\ wc_src' = wc_src + len
         /\ wc_written' = wc_written + len
         /\ IF wc_remaining < wc_cs /\ overflow_checks
            THEN wc_pc' = "panic" /\ UNCHANGED <<wc_remaining, wc_i>>
            ELSE /\ wc_remaining' = Wrap64(wc_remaining - wc_cs)
                 /\ wc_i' = wc_i + 1
                 /\ wc_pc' = "cluster"
         /\ UNCHANGED wc_k

WC_Cluster ==
    /\ wc_pc = "cluster"
    /\ IF wc_i >= wc_runs[wc_k].length
       THEN /\ wc_k' = wc_k + 1
            /\ wc_pc' = "run"
            /\ UNCHANGED <<wc_i, wc_remaining, wc_buflen, wc_src, wc_written>>
       ELSE WC_ClusterNext(IF wc_remaining < wc_cs THEN wc_remaining ELSE wc_buflen)
    /\ UNCHANGED <<wc_cs, wc_size, wc_runs, wc_offset>>
    /\ UNCHANGED notWrite

NextWrite == WC_Run \/ WC_Cluster

SpecWrite == InitWrite /\ [][NextWrite]_vars

----------------------------------------------------------------------------
(* Claims about the MFT facade, checked under SpecMft *)

\* records of $MFT that lie inside its size
InMft(idx) == (idx + 1) * RecordSize <= MftSize

\* C13: however open_entry calls on the facade and reads and seeks on an
\* entry's content reader are interleaved, the reader's device handle is not
\* the one of the $MFT stream, and each stream's state, device position and
\* returned bytes are those it gives when it runs alone.
C13_StreamsIndependent ==
    /\ solo.same
    /\ mft.state = solo.mft_state
    /\ handles[mft.h] = solo.mft_pos
    /\ rdr.open =>
          /\ rdr.h # mft.h
          /\ rdr.state = solo.rdr_state
          /\ handles[rdr.h] = solo.rdr_pos

\* the reader over record 0's content has read 1400 bytes in two reads, and
\* open_entry(3) was called after data() made it
C13_Witness ==
    /\ rdr.open
    /\ rdr.kind = "NonResident"
    /\ rdr.got = 700
    /\ VirtPosition(rdr.runs, rdr.state) = 1400
    /\ mft_entry.st # "none"
    /\ mft_entry.idx = 3
    /\ handles[rdr.h] # handles[mft.h]

\* C14: after any earlier open_entry calls, open_entry(idx) of a record
\* inside $MFT parses exactly the 1024 bytes at virtual offsets idx*1024 ..
\* (idx+1)*1024 of the $MFT stream, also across a run boundary, leaves the
\* stream at virtual position (idx+1)*1024, and gives the result that
\* parsing the record on its own gives.
C14_OpenEntryExact ==
    (mft_entry.st # "none" /\ InMft(mft_entry.idx)) =>
        /\ mft_entry.exact
        /\ mft_entry.fresh
        /\ VirtPosition(mft.runs, mft.state) = (mft_entry.idx + 1) * RecordSize

\* record 1, which spans the boundary of the two runs, opened after other
\* open_entry calls
C14_Witness ==
    /\ mft_entry.st = "ok"
    /\ mft_entry.idx = 1
    /\ mft_entry.prev # "none"
    /\ mft_entry.exact
    /\ mft.state.run = 1

\* C15: once an open_entry has failed on a corrupt record, open_entry of a
\* well-formed record still succeeds and gives the entry that parsing the
\* record on its own gives.
C15_CorruptDoesNotPoison ==
    (mft_entry.failed /\ mft_entry.st # "none" /\ Parsed(mft_ss, mft_entry.idx).st = "ok") =>
        /\ mft_entry.st = "ok"
        /\ mft_entry.fresh

\* record 0 opened right after open_entry failed
C15_Witness ==
    /\ mft_entry.prev = "panic"
    /\ mft_entry.idx = 0
    /\ mft_entry.st = "ok"
    /\ mft_entry.fresh

\* C20: every byte of a resident attribute's data that parse_mft_entry read
\* at one of the last two offsets of a sector is the byte the record has
\* there after fixup_buf.
C20_AttrsFromFixedRecord ==
    mft_entry.st = "ok" =>
        \A i \in DOMAIN mft_entry.attrs :
            \A k \in DOMAIN mft_entry.attrs[i].data :
                (mft_entry.attrs[i].data_at + k - 1) \in SectorEnds(mft_ss) =>
                    mft_entry.attrs[i].data[k] =
                        mft_entry.ends[mft_entry.attrs[i].data_at + k - 1]

----------------------------------------------------------------------------
(* Claims about parse_boot, checked under SpecBoot *)

\* C18: parse_boot never returns a Boot whose sector_size or cluster_size
\* is zero.
C18_NoZeroSizes ==
    boot_pc = "ok" => (boot.sector_size # 0 /\ boot.cluster_size # 0)

\* C19: for every boot sector parse_boot returns cluster_size =
\* sector_size * sectors_per_cluster and mft_start = mft_start_cluster *
\* cluster_size, the exact products.
C19_ExactProducts ==
    boot_pc \in {"ok", "panic"} =>
        /\ boot_pc = "ok"
        /\ boot.cluster_size = boot.sector_size * boot.sectors_per_cluster
        /\ boot.mft_start = boot.mft_start_cluster * boot.cluster_size

----------------------------------------------------------------------------
(* Claims about the Volume, checked under SpecVolume *)

\* C10: seek(Start, x) returns x and leaves position() = x, seek(Current, d)
\* leaves position() = previous position + d, and read_exact(n) advances
\* position() by exactly n, whichever branch of the seek is taken.
C10_VolumePositions ==
    vol_pc = "open" =>
        /\ vret.op = "seek_start" =>
              vret.val = vret.arg /\ BufStreamPosition(vol) = vret.arg
        /\ vret.op = "seek_current" =>
              /\ vret.val = vret.from + vret.arg
              /\ BufStreamPosition(vol) = vret.from + vret.arg
        /\ (vret.op = "read_exact" /\ vret.ok) =>
              BufStreamPosition(vol) = vret.from + vret.arg

\* a seek to an unaligned offset outside the buffer: raw re-aligned seek
C10_Witness ==
    /\ vol_pc = "open"
    /\ vret.op = "seek_start"
    /\ vret.branch = "raw"
    /\ vret.arg % Align # 0
    /\ vret.from # vret.arg
    /\ vol.pos = vret.arg % Align
    /\ BufStreamPosition(vol) = vret.arg

\* the volume offset of every byte of a read, in the order returned
RECURSIVE Contiguous(_, _)
Contiguous(segs, from) ==
    \/ segs = <<>>
    \/ /\ Head(segs).at = from
       /\ Contiguous(Tail(segs), from + Head(segs).n)

\* C11: whatever was read and sought before, the bytes a read or read_exact
\* returns after seek(Start, a) are the volume's bytes at a, a+1, ...: each
\* piece handed back was read from the volume offset it is returned for,
\* which is where reading the volume from offset 0 finds it.
C11_ReadsAreVolumeBytes ==
    (vol_pc = "open" /\ vret.op \in {"read", "read_exact"}) =>
        Contiguous(vret.segs, vret.from)

\* a read_exact right after a seek(Start) that had to cross the buffer's end
C11_Witness ==
    /\ vol_pc = "open"
    /\ vret.op = "read_exact"
    /\ vret.prev = "seek_start"
    /\ vret.ok
    /\ Len(vret.segs) = 2
    /\ vret.from % Align # 0

\* C12: every seek issued on the raw handle targets a multiple of 512.
C12_RawSeeksAligned ==
    (vret.op \in {"read", "read_exact", "seek_start", "seek_current"}) =>
        \A k \in 1..Len(vret.raw_seeks) : vret.raw_seeks[k] % Align = 0

\* C17: seek(End, x) never returns a position.
C17_SeekEndFails ==
    vret.op = "seek_end" => (vol_pc = "panic" /\ vret.val < 0)

\* seek(End, x) was called on a Volume that had been read and sought
C17_Witness ==
    /\ vret.op = "seek_end"
    /\ vret.arg < 0
    /\ vret.from > 0
    /\ vol_pc = "panic"

----------------------------------------------------------------------------
(* Claims about the record fixup, checked under SpecFixup *)

\* C8: after a successful fixup, for every i in 1 .. fixup_entries - 1 the two
\* bytes at sector_size*i - 2 hold the i-th original value of the fixup array,
\* the value stored at fixup_offset + 2*i of the record.
C8_SectorEndsRestored ==
    (fx_pc = "ok" /\ fx_pass = 1) =>
        \A i \in 1..(hdr.fixup_entries - 1) :
            Pair(buf, sector_size * i - 2) = Pair(disk, hdr.fixup_offset + 2 * i)

\* C9: when a first fixup_buf pass over a record succeeds, a second pass over
\* the resulting buffer with the same header fails the sector-signature check
\* (stated for the records that have a protected sector whose original value
\* differs from the signature S: the others hold S at a sector end after any
\* restoration).
C9_SecondPassFails ==
    (/\ fx_pass = 2
     /\ fx_pc \in {"ok", "panic"}
     /\ \E i \in 1..(hdr.fixup_entries - 1) :
           Pair(disk, hdr.fixup_offset + 2 * i) # Pair(disk, hdr.fixup_offset))
    => fx_pc = "panic"

\* a sector end of the on-disk record that does not hold the signature
\* stored at fixup_offset
Mismatch(i) ==
    /\ sector_size * i >= 2
    /\ sector_size * i <= RecordSize
    /\ Pair(disk, sector_size * i - 2) # Pair(disk, ParseMftHeader(disk).fixup_offset)

\* C21: for a record that holds its update sequence array, the first
\* fixup_buf pass fails exactly when for some i in 1 .. fixup_entries - 1 the
\* two bytes of the on-disk record at sector_size*i - 2 differ from the
\* signature stored at fixup_offset; with no such i it succeeds, whatever
\* sector_size and fixup_entries are.
C21_FailsIffMismatch ==
    (/\ fx_pass = 1
     /\ fx_pc \in {"ok", "panic"}
     /\ ParseMftHeader(disk).fixup_offset + 2 <= RecordSize
     /\ ParseMftHeader(disk).fixup_offset + 2 * ParseMftHeader(disk).fixup_entries
            <= RecordSize)
    => (fx_pc = "panic" <=>
            \E i \in 1..(ParseMftHeader(disk).fixup_entries - 1) : Mismatch(i))

----------------------------------------------------------------------------
(* Claims about RunReader and ContentReader, checked under SpecReader *)

\* the device bytes [offset, offset + len) of each run, in run-list order
RECURSIVE RunBytes(_, _)
RunBytes(rs, d) ==
    IF rs = <<>> THEN <<>>
    ELSE SubSeq(d, Head(rs).offset + 1, Head(rs).offset + Head(rs).len) \o RunBytes(Tail(rs), d)

IsPrefix(a, b) == Len(a) <= Len(b) /\ a = SubSeq(b, 1, Len(a))

\* what a second reader over the same content returns when it is read one
\* byte at a time from its initial state until a read returns nothing
RECURSIVE SeqRunBytes(_, _, _, _, _, _)
SeqRunBytes(rs, sz, st, vp, d, fuel) ==
    LET r == RunRead(rs, sz, st, vp, d, 1, 1)
    IN  IF fuel = 0 \/ r.bytes = <<>> THEN <<>>
        ELSE r.bytes \o SeqRunBytes(rs, sz, r.state, r.vol_pos, d, fuel - 1)

RECURSIVE SeqCursorBytes(_, _, _)
SeqCursorBytes(bytes, pos, fuel) ==
    LET r == CursorRead(bytes, pos, 1)
    IN  IF fuel = 0 \/ r.bytes = <<>> THEN <<>>
        ELSE r.bytes \o SeqCursorBytes(bytes, r.cpos, fuel - 1)

SeqBytes ==
    IF kind = "Resident" THEN SeqCursorBytes(data, 0, Len(data) + 1)
    ELSE SeqRunBytes(runs, size, [run |-> 0, pos |-> 0], 0, dev, size + 1)

\* C1: a RunReader read sequentially from (run 0, pos 0) until a read returns 0
\* yields exactly the device bytes of its runs, concatenated in run-list
\* order, whatever the buffer sizes and the device's initial position.
C1_SequentialRead ==
    (kind = "NonResident" /\ sequential) =>
        /\ IsPrefix(out, RunBytes(runs, dev))
        /\ (ret.op = "read" /\ ret.bytes = <<>>) => out = RunBytes(runs, dev)

\* the three runs (3,4), (0,3), (10,3) over "4560123XXX789" read to the end
C1_Witness ==
    /\ kind = "NonResident"
    /\ sequential
    /\ Len(runs) = 3
    /\ ret.op = "read"
    /\ ret.bytes = <<>>
    /\ out = <<48, 49, 50, 51, 52, 53, 54, 55, 56, 57>>

\* C2: a ContentReader read from offset 0 returns size() bytes in all, and a
\* read at position size() returns 0 bytes and leaves the position at size().
C2_ReadsSizeThenEof ==
    kind \in {"Resident", "NonResident"} =>
        /\ sequential => Len(out) <= CRSize
        /\ (sequential /\ ret.op = "read" /\ ret.bytes = <<>>) => Len(out) = CRSize
        /\ (ret.op = "read" /\ ret.from = CRSize) =>
              ret.bytes = <<>> /\ CRPosition = CRSize

\* a non-resident reader read from 0 to its end, then read once more
C2_Witness ==
    /\ kind = "NonResident"
    /\ size > 0
    /\ Len(runs) > 1
    /\ sequential
    /\ Len(out) = size
    /\ ret.op = "read"
    /\ ret.from = size
    /\ ret.bytes = <<>>

\* C5: a RunReader seek to a virtual target v in 0 ..= size returns v, leaves
\* run at the last run k with virt_offset <= v and pos = v - virt_offset[k],
\* and leaves the device at runs[k].offset + pos; Current is relative to the
\* position before the seek, End to size.
C5_SeekLandsOnTarget ==
    (kind = "NonResident" /\ ret.op = "seek") =>
        LET v == CASE ret.whence = "Start"   -> ret.arg
                   [] ret.whence = "Current" -> ret.from + ret.arg
                   [] ret.whence = "End"     -> size + ret.arg
            k == state.run + 1
        IN  /\ ret.val = v
            /\ k \in 1..Len(runs)
            /\ runs[k].virt_offset <= v
            /\ \A j \in (k + 1)..Len(runs) : runs[j].virt_offset > v
            /\ state.pos = v - runs[k].virt_offset
            /\ vol_pos = runs[k].offset + state.pos

\* a seek relative to the end that lands inside the last of three runs
C5_Witness ==
    /\ kind = "NonResident"
    /\ ret.op = "seek"
    /\ ret.whence = "End"
    /\ ret.arg < 0
    /\ Len(runs) = 3
    /\ state.run = 2
    /\ state.pos > 0

\* C6: seek(Start, p) with p <= size() returns p and leaves stream_position()
\* at p, and the bytes read after a seek are the bytes a sequentially read
\* second reader returns for the same offsets.
C6_SeekThenReadAgrees ==
    kind \in {"Resident", "NonResident"} =>
        /\ (ret.op = "seek" /\ ret.whence = "Start") =>
              ret.val = ret.arg /\ CRPosition = ret.arg
        /\ (ret.op = "read" /\ ~sequential) =>
              /\ ret.bytes = SubSeq(SeqBytes, ret.from + 1, ret.from + Len(ret.bytes))
              /\ ret.from < CRSize => ret.bytes # <<>>
              /\ CRPosition = ret.from + Len(ret.bytes)

\* a read right after seek(Start, p) with p on the boundary of two runs
C6_Witness ==
    /\ kind = "NonResident"
    /\ ret.op = "read"
    /\ ret.after
    /\ state.run >= 1
    /\ ret.from = runs[state.run + 1].virt_offset
    /\ runs[state.run].len > 0
    /\ Len(ret.bytes) >= 2

\* C16: a seek to a virtual position greater than size() is rejected at the
\* seek: it does not return Ok with a position > size() and does not leave
\* the reader with pos greater than the current run's length.
C16_SeekBeyondRejected ==
    ret.op = "seek_beyond" =>
        /\ ~ret.ok
        /\ CRPosition <= CRSize
        /\ kind = "NonResident" => state.pos <= runs[state.run + 1].len

\* the last call was a read on a RunReader
RunReaderRead == ret.op = "read" /\ kind = "NonResident"

\* the read found its run exhausted while data remained
ReadLeftRun ==
    /\ RunReaderRead
    /\ RunRemaining(runs, ret.st0) = 0
    /\ VirtPosition(runs, ret.st0) < size

\* C22 as stated: a read that finds its run k exhausted while data remains
\* re-seeks to the physical start of run k + 1.
C22_FollowingRun ==
    ReadLeftRun =>
        /\ ret.at.run = ret.st0.run + 1
        /\ ret.dev_at = runs[ret.st0.run + 2].offset

\* C22: a RunReader read returns at most run_remaining() bytes and leaves the
\* state in the run it read from, at the run's length when it exhausted it;
\* a read that finds its run exhausted while data remains first re-seeks the
\* device to the physical start of the next run that holds data (the runs
\* skipped have length 0), and a read at a virtual position other than 0
\* that finds bytes remaining in its run does not move the state first.
C22_NoAutoAdvance ==
    RunReaderRead =>
        /\ Len(ret.bytes) <= RunRemaining(runs, ret.at)
        /\ state = [run |-> ret.at.run, pos |-> ret.at.pos + Len(ret.bytes)]
        /\ state.pos <= runs[state.run + 1].len
        /\ ReadLeftRun =>
              /\ ret.at.run > ret.st0.run
              /\ ret.at.pos = 0
              /\ runs[ret.at.run + 1].len > 0
              /\ \A j \in (ret.st0.run + 1)..(ret.at.run - 1) : runs[j + 1].len = 0
              /\ ret.dev_at = runs[ret.at.run + 1].offset
        /\ (~ReadLeftRun /\ VirtPosition(runs, ret.st0) # 0) => ret.at = ret.st0

\* a read exhausted run k, and the next read left it over a zero-length run
C22_Witness ==
    /\ ReadLeftRun
    /\ ret.st0.pos > 0
    /\ ret.at.run = ret.st0.run + 2
    /\ Len(ret.bytes) > 0

\* the device address of the byte at virtual offset v: in the run that holds v
PhysOf(v) ==
    LET k == CHOOSE j \in 1..Len(runs) :
                 runs[j].virt_offset <= v /\ v < runs[j].virt_offset + runs[j].len
    IN  runs[k].offset + (v - runs[k].virt_offset)

\* the read asked the device for bytes
ReadPulled == RunReaderRead /\ RunRemaining(runs, ret.at) > 0

\* C26: whenever a RunReader read asks the device for bytes, the device
\* stands at runs[run].offset + pos, and every byte returned is the device
\* byte at the address of its virtual offset; from the first read on,
\* wherever the device stood when the reader was made.
C26_CursorInSync ==
    ReadPulled =>
        /\ ret.dev_at = Position(runs, ret.at)
        /\ VirtPosition(runs, ret.at) = ret.from
        /\ \A j \in 1..Len(ret.bytes) :
              /\ ret.from + j - 1 < size
              /\ ret.bytes[j] = dev[PhysOf(ret.from + j - 1) + 1]

\* after a seek into the middle of a run, a read returned several bytes
\* from a device address other than the run's start
C26_Witness ==
    /\ ReadPulled
    /\ ret.after
    /\ ret.at.pos > 0
    /\ ret.at.run > 0
    /\ Len(ret.bytes) > 1
    /\ ret.dev_at = Position(runs, ret.at)

\* the last call failed in the device seek
SeekFailed == ret.op \in {"seek_failed", "read_failed"}

\* C27: when the device seek fails in RunReader::seek, (run, pos) and
\* virt_position() are what they were before the call, and a read that
\* follows returns the device bytes of the virtual offsets it reports.
C27_FailedSeekKeepsState ==
    /\ SeekFailed =>
          /\ state = ret.st0
          /\ VirtPosition(runs, state) = ret.from
    /\ (RunReaderRead /\ ret.after_failure) =>
          \A j \in 1..Len(ret.bytes) :
              /\ ret.from + j - 1 < size
              /\ ret.bytes[j] = dev[PhysOf(ret.from + j - 1) + 1]

\* C29: every RunReader read into a non-empty buffer at a virtual position
\* below the size returns at least one byte, and sequential reading
\* eventually stands at the size; zero-length runs do not stop it.
C29_ReadsReachSize ==
    /\ [](RunReaderRead /\ ret.from < size => Len(ret.bytes) >= 1)
    /\ <>(kind = "NonResident" => VirtPosition(runs, state) = size)

\* sequential reading went over a zero-length run and stands at the size
C29_Witness ==
    /\ RunReaderRead
    /\ sequential
    /\ Len(out) = size
    /\ VirtPosition(runs, state) = size
    /\ \E k \in 1..(Len(runs) - 1) : runs[k].len = 0 /\ runs[k].virt_offset > 0

----------------------------------------------------------------------------
(* Claims about the run-list decoder, checked under SpecParse *)

RECURSIVE SumDelta(_, _)
SumDelta(rs, i) == IF i = 0 THEN 0 ELSE rs[i].delta + SumDelta(rs, i - 1)

\* C3: for every raw run sequence and every real_size that load_runs decodes,
\* the lengths of the resulting DataRuns sum to real_size exactly.
C3_SumEqualsRealSize ==
    pr_pc = "done" => SumLen(out_runs) = real_size

C7_RunListDecoded ==
    pr_pc \in {"loop", "done"} =>
        /\ Len(raw_runs) <= Len(recs)
        /\ pr_pc = "done" => Len(raw_runs) = Len(recs) /\ Len(out_runs) = Len(recs)
        /\ \A i \in 1..Len(raw_runs) :
              /\ raw_runs[i][1] = SumDelta(recs, i) * cluster_size
              /\ raw_runs[i][2] = recs[i].length * cluster_size
        /\ \A i \in 1..Len(out_runs) :
              /\ out_runs[i].offset = SumDelta(recs, i) * cluster_size
              /\ i < Len(out_runs) => out_runs[i].len = recs[i].length * cluster_size

\* the run list 21 10 00 01 11 20 E0 00 with cluster_size 1 and size 48
C7_Witness ==
    /\ pr_pc = "done"
    /\ cur_bytes = <<33, 16, 0, 1, 17, 32, 224, 0>>
    /\ cluster_size = 1
    /\ real_size = 48
    /\ out_runs = << [offset |-> 256, virt_offset |-> 0, len |-> 16],
                     [offset |-> 224, virt_offset |-> 16, len |-> 32] >>

----------------------------------------------------------------------------
(* Claims about read_int_bytes, checked under SpecInt *)

\* the num_bytes bytes the call consumed
IntGot == SubSeq(ri_bytes, ri_pos + 1, ri_pos + ri_n)

\* the high bit of the last byte read is set
IntNegative == ri_n > 0 /\ IntGot[ri_n] >= 128

\* the call is within the stated range: num_bytes in 0..8 and the input is there
IntInRange == ri_ret.st # "none" /\ ri_n <= 8 /\ ri_pos + ri_n <= Len(ri_bytes)

\* C23: for every num_bytes in 0..8 and every input of that many bytes,
\* read_int_bytes returns eight bytes whose first num_bytes are the input and
\* whose rest is 255 when signed and the high bit of the last byte read is set,
\* and 0 otherwise; as a number this is the two's-complement sign extension
\* (signed) or the zero extension (unsigned) of the little-endian input, and
\* with num_bytes = 0 both are 0 and nothing is consumed.
C23_SignExtension ==
    IntInRange =>
        /\ ri_ret.st = "ok"
        /\ ri_ret.pos = ri_pos + ri_n
        /\ Len(ri_ret.bytes) = 8
        /\ \A i \in 1..ri_n : ri_ret.bytes[i] = IntGot[i]
        /\ \A i \in (ri_n + 1)..8 :
              ri_ret.bytes[i] = IF ri_signed /\ IntNegative THEN 255 ELSE 0
        /\ (ri_n <= 3 /\ ri_signed) =>
              I64FromLe(ri_ret.bytes)
                  = U64FromLe(IntGot) - (IF IntNegative THEN Pow256(ri_n) ELSE 0)
        /\ (ri_n <= 3 /\ ~ri_signed) => U64FromLe(ri_ret.bytes) = U64FromLe(IntGot)
        /\ ri_n = 0 => (ri_ret.pos = ri_pos /\ \A i \in 1..8 : ri_ret.bytes[i] = 0)

\* a signed read of several bytes whose last byte has the high bit set and
\* whose first has not
C23_Witness ==
    /\ IntInRange
    /\ ri_signed
    /\ ri_n >= 2
    /\ IntNegative
    /\ IntGot[1] < 128
    /\ ri_ret.st = "ok"
    /\ ri_ret.bytes[8] = 255

----------------------------------------------------------------------------
(* Claims about parse_mft_attrs, checked under SpecAttrs and SpecAttrsFair *)

\* the 32-bit attr_type slot at p holds the end marker 0xFFFFFFFF
Sentinel32(p) ==
    /\ p + 4 <= RecordSize
    /\ U16At(at_rec, p) = 65535
    /\ U16At(at_rec, p + 2) = 65535

\* the place of the i-th attribute slot of the record: the first at the
\* cursor's start, each next one at P + length of the one before
RECURSIVE SlotPlace(_)
SlotPlace(i) ==
    IF i = 1 THEN at_start
    ELSE LET p == SlotPlace(i - 1)
         IN  p + U16At(at_rec, p + 4) + 65536 * U16At(at_rec, p + 6)

\* C24: the attributes parsed are the slots of the record in order, each read
\* at P + length of the one before and none holding 0xFFFFFFFF in its 32-bit
\* attr_type, and the scan returns only at a slot whose 32-bit attr_type is
\* 0xFFFFFFFF.
C24_StopsAtSentinel32 ==
    /\ \A i \in 1..Len(at_attrs) :
          /\ at_attrs[i].at = SlotPlace(i)
          /\ ~Sentinel32(at_attrs[i].at)
          /\ at_attrs[i].lo = U16At(at_rec, SlotPlace(i))
          /\ at_attrs[i].hi = U16At(at_rec, SlotPlace(i) + 2)
    /\ (at_pc = "ok" /\ Len(at_attrs) < MaxAttrs) =>
          /\ at_pos = SlotPlace(Len(at_attrs) + 1)
          /\ Sentinel32(at_pos)

\* C28: parse_mft_attrs returns on every record, at the end marker or with
\* an error.
C28_Terminates == (at_pc = "scan") ~> (at_pc \in {"ok", "err", "panic"})

----------------------------------------------------------------------------
(* Claims about write_content of main.rs, checked under SpecWrite *)

RECURSIVE WriteClusters(_)
WriteClusters(rl) == IF rl = <<>> THEN 0 ELSE Head(rl).length + WriteClusters(Tail(rl))

\* the cluster run k starts at
RECURSIVE WriteOffset(_)
WriteOffset(k) == IF k = 0 THEN 0 ELSE WriteOffset(k - 1) + wc_runs[k].offset

\* the clusters of the run list cover the size: they hold its last byte and
\* no cluster lies wholly beyond it, and every run is on the source
WriteCovers ==
    /\ WriteClusters(wc_runs) * wc_cs >= wc_size
    /\ (WriteClusters(wc_runs) - 1) * wc_cs < wc_size
    /\ \A k \in 1..Len(wc_runs) :
          /\ WriteOffset(k) >= 0
          /\ (WriteOffset(k) + wc_runs[k].length) * wc_cs <= WriteSrcLen

\* C25: write_content on a NonResident content whose run list covers its
\* size writes exactly size bytes and returns Ok, whether or not the size is
\* a multiple of the cluster size.
C25_WritesSize ==
    (wc_pc \in {"ok", "err", "panic"} /\ WriteCovers)
        => (wc_pc = "ok" /\ wc_written = wc_size)

----------------------------------------------------------------------------
(* Claims about empty run lists, checked under SpecParse *)

\* the run list on disk has no record: its first header byte is 0x00
NoRecords == cur_bytes # <<>> /\ cur_bytes[1] = 0

\* C30: every run list parse_run_list returns has at least one run; a run
\* list whose first header byte is 0x00 makes the decoding fail, whatever
\* the size, and no run list comes out of it.
C30_NoEmptyRunList ==
    /\ pr_pc = "done" => Len(out_runs) >= 1
    /\ (NoRecords /\ pr_pc \notin {"start", "loop"}) =>
          /\ pr_pc = "panic"
          /\ raw_runs = <<>>
          /\ out_runs = <<>>

\* the decoding of a run list without records and of size 0 has failed in
\* load_runs
C30_Witness ==
    /\ NoRecords
    /\ real_size = 0
    /\ first_byte = 0
    /\ cur_pos = 1
    /\ pr_pc = "panic"

====
